---- MODULE Spec2Model ----
(***************************************************************************)
(* Model of the aql-cleaner text pipeline:                                 *)
(*   - splitTextIntoChunks (size-safe chunker), on character sequences;    *)
(*   - stripCruft / identifySection / compileMarkdown (v1.1 cleaner), on   *)
(*     lines made of tokens.                                               *)
(*   - createCleanNotionPage / addRemainingBlocks (batched writer);        *)
(*   - the v1.1 handler with fetchBlocksDeep / fetchAllChildren;           *)
(*   - the handler with the optional polishing step;                       *)
(*   - chunkText (v1.1 chunker), on character sequences;                   *)
(*   - createCleanPage of the v1.1 cleaner (one create request);           *)
(*   - processContentLine (blocks of one content line);                    *)
(*   - two runs of the v1.1 handler in one process;                        *)
(*   - the header-scanning loop of parseClayContent.                       *)
(* Each component has its own specification; the variables of the other    *)
(* components stay at rest.                                                *)
(* A JavaScript string is a sequence of one-character strings; a line of   *)
(* the classifier is a sequence of tokens (a token is a word group that a  *)
(* regular expression of the source matches or ignores as a whole).        *)
(***************************************************************************)
EXTENDS Integers, Sequences, FiniteSets, TLC

VARIABLES
  text,        \* splitTextIntoChunks: the argument text
  maxLength,   \* splitTextIntoChunks: the argument maxLength
  chunks,      \* splitTextIntoChunks: the returned array
  cpc,         \* chunker position: "idle", "call" (arguments bound), "done"
  allLines,    \* identifySection: the lines consumed so far by the for loop
  buckets,     \* identifySection: the Map key -> array of lines
  current,     \* identifySection: the cursor `current` (Null or a key)
  md,          \* compileMarkdown: the array md after the final pop loop
  spc,         \* classifier position: "idle", "loop", "compiled"
  rawLine,     \* stripCruft: the argument line
  once,        \* stripCruft(rawLine)
  twice,       \* stripCruft(stripCruft(rawLine))
  tpc,         \* stripCruft position: "idle", "call", "once", "twice"
  blocks,      \* createCleanNotionPage: the array blocks (block identities)
  requests,    \* write requests issued to the destination, in issue order
  inFlight,    \* indices in requests of the requests not yet answered
  destination, \* child list of the created page, as the destination holds it
  wi,          \* addRemainingBlocks: the loop index i
  wpc,         \* writer position: "idle", "create", "append", "done", "failed"
  req,         \* v1.1 handler: the request [method, pageId]
  env,         \* v1.1 handler: the configuration [DRY_RUN, CLEAN_PARENT]
  source,      \* the source page tree [parent, kind] held by the collaborator
  stack,       \* fetchBlocksDeep: the frames of the recursion, innermost first
  acc,         \* fetchBlocksDeep: the accumulator acc
  calls,       \* v1.1 handler: the collaborator calls made, in order
  lines,       \* v1.1 handler: the extracted lines
  markdown,    \* v1.1 handler: the compiled markdown
  pages,       \* the pages created at the destination
  res,         \* v1.1 handler: the response [status, wrote, notionPageId, error]
  trace,       \* v1.1 handler: the stages entered, in order
  hpc,         \* handler position: "idle", "start", "fetch", "classify",
               \*   "write", "creating", "done"
  preq,        \* polishing handler: the request [method, pageID, sections, raw,
               \*   useOpenAI, includeTOC]
  penv,        \* polishing handler: [NOTION_PARENT_ID, OPENAI_API_KEY] set or not
  ptext,       \* polishing handler: the text of the paragraph section
  pblocks,     \* polishing handler: the array blocks
  pcalls,      \* polishing handler: the collaborator calls made, in order
  pdest,       \* children of the page created by the polishing handler
  pbatch,      \* polishing handler: index of the next batch of the remainder
  pres,        \* polishing handler: status of the response (0: none yet)
  ppc,         \* polishing handler position: "idle", "start", "content",
               \*   "build", "append", "done"
  ctext,       \* chunkText: the argument text
  csize,       \* chunkText: the argument size
  cpieces,     \* chunkText: the returned array out
  ctpc,        \* chunkText position: "idle", "call", "done"
  cpMarkdown,  \* createCleanPage: the argument markdown
  cpJson,      \* createCleanPage: jsonPretty, the serialised jsonObj
  cpEnv,       \* createCleanPage: the configuration [DRY_RUN, CLEAN_PARENT]
  cpCalls,     \* createCleanPage: the write requests issued, in order
  cpDest,      \* children of the page created by createCleanPage
  cpRet,       \* createCleanPage: the value returned, or the error thrown
  cpPc,        \* createCleanPage position: "idle", "start", "creating", "done"
  lnLine,      \* processContentLine: the argument line
  lnMax,       \* processContentLine: the chunk limit read from MAX_TEXT_LENGTH
  lnBlocks,    \* processContentLine: the array blocks
  lnPc,        \* processContentLine position: "idle", "call", "done"
  rnLines,     \* runs of the v1.1 handler in one process: the lines of each run
  rnBuckets,   \* the buckets of each run
  rnMd,        \* the markdown of each run
  rnLast,      \* the loop state left behind by the latest call of identifySection
  rnPc,        \* position of each run: "idle", "fetch", "create", "done"
  psBlock,     \* parseClayContent: majorBlock, as header and content tokens
  psRegexIndex, \* parseClayContent: sectionRegex.lastIndex
  psLastIndex, \* parseClayContent: the local lastIndex
  psSections,  \* parseClayContent: data.sections
  psIter,      \* parseClayContent: turns of the while loop taken
  psPc         \* parseClayContent position: "idle", "loop", "done"

chunkVars == <<text, maxLength, chunks, cpc>>
sectVars  == <<allLines, buckets, current, md, spc>>
stripVars == <<rawLine, once, twice, tpc>>
writeVars == <<blocks, requests, inFlight, destination, wi, wpc>>
handlerVars == <<req, env, source, stack, acc, calls, lines, markdown, pages, res, trace, hpc>>
polishVars == <<preq, penv, ptext, pblocks, pcalls, pdest, pbatch, pres, ppc>>
chunkTextVars == <<ctext, csize, cpieces, ctpc>>
createPageVars == <<cpMarkdown, cpJson, cpEnv, cpCalls, cpDest, cpRet, cpPc>>
lineVars == <<lnLine, lnMax, lnBlocks, lnPc>>
runsVars == <<rnLines, rnBuckets, rnMd, rnLast, rnPc>>
parseVars == <<psBlock, psRegexIndex, psLastIndex, psSections, psIter, psPc>>
vars      == <<chunkVars, sectVars, stripVars, writeVars, handlerVars, polishVars, chunkTextVars, createPageVars, lineVars, runsVars, parseVars>>

\* the variables of the other components, left alone by a component's steps
exceptChunk == <<sectVars, stripVars, writeVars, handlerVars, polishVars, chunkTextVars, createPageVars, lineVars, runsVars, parseVars>>
exceptSect  == <<chunkVars, stripVars, writeVars, handlerVars, polishVars, chunkTextVars, createPageVars, lineVars, runsVars, parseVars>>
exceptStrip == <<chunkVars, sectVars, writeVars, handlerVars, polishVars, chunkTextVars, createPageVars, lineVars, runsVars, parseVars>>
exceptWrite == <<chunkVars, sectVars, stripVars, handlerVars, polishVars, chunkTextVars, createPageVars, lineVars, runsVars, parseVars>>
exceptHandler == <<chunkVars, sectVars, stripVars, writeVars, polishVars, chunkTextVars, createPageVars, lineVars, runsVars, parseVars>>
exceptPolish == <<chunkVars, sectVars, stripVars, writeVars, handlerVars, chunkTextVars, createPageVars, lineVars, runsVars, parseVars>>
exceptChunkText == <<chunkVars, sectVars, stripVars, writeVars, handlerVars, polishVars, createPageVars, lineVars, runsVars, parseVars>>
exceptCreatePage == <<chunkVars, sectVars, stripVars, writeVars, handlerVars, polishVars, chunkTextVars, lineVars, runsVars, parseVars>>
exceptLine == <<chunkVars, sectVars, stripVars, writeVars, handlerVars, polishVars, chunkTextVars, createPageVars, runsVars, parseVars>>
exceptRuns == <<chunkVars, sectVars, stripVars, writeVars, handlerVars, polishVars, chunkTextVars, createPageVars, lineVars, parseVars>>
exceptParse == <<chunkVars, sectVars, stripVars, writeVars, handlerVars, polishVars, chunkTextVars, createPageVars, lineVars, runsVars>>

Null == <<>>       \* null: the cursor before any key (a key is a pair)

(***************************************************************************)
(* Bounds of the model.                                                    *)
(***************************************************************************)
MaxLen   == 5      \* longest text given to splitTextIntoChunks
MaxM     == 3      \* largest maxLength given to splitTextIntoChunks
MaxLines == 4      \* most lines given to identifySection
MaxTokens == 3     \* most tokens of a line given to stripCruft alone
MaxBlocks == 301   \* most blocks built by createCleanNotionPage
MaxNodes == 3      \* most blocks of the source page tree
MaxSections == 200 \* most sections in the body given to the polishing handler
MaxSegments == 3   \* most segments (words, blanks, newlines) of a text given to chunkText
MaxChunks == 49     \* most pieces of the markdown given to createCleanPage
MaxLineLen == 5    \* longest line given to processContentLine
MaxRunLines == 2   \* most lines of a run among runs in one process
MaxBlockLen == 3   \* most tokens of a block given to parseClayContent
MaxIter == 6       \* most turns of the while loop of parseClayContent that are followed

(***************************************************************************)
(* Strings.                                                                *)
(***************************************************************************)
Chars == {"a", "b", " ", ".", ","}

Terminators == {".", "!", "?"}     \* the class [.!?] of the sentence regex

RECURSIVE StringsUpTo(_)
StringsUpTo(n) ==
  IF n = 0 THEN {<<>>}
  ELSE LET S == StringsUpTo(n - 1)
       IN  S \cup {Append(s, c) : s \in {t \in S : Len(t) = n - 1}, c \in Chars}

\* String.prototype.trim: whitespace removed at both ends
RECURSIVE trimStart(_)
trimStart(s) ==
  IF s # <<>> /\ Head(s) = " " THEN trimStart(Tail(s)) ELSE s

RECURSIVE trimEnd(_)
trimEnd(s) ==
  IF s # <<>> /\ s[Len(s)] = " " THEN trimEnd(SubSeq(s, 1, Len(s) - 1)) ELSE s

trim(s) == trimEnd(trimStart(s))

\* String.prototype.split(' '): cut at every single space, empty pieces kept
RECURSIVE splitSpace(_, _)
splitSpace(s, piece) ==
  IF s = <<>> THEN <<piece>>
  ELSE IF Head(s) = " " THEN <<piece>> \o splitSpace(Tail(s), <<>>)
  ELSE splitSpace(Tail(s), Append(piece, Head(s)))

\* String.prototype.split(/,\s*/): cut at every comma, the whitespace that
\* follows the comma is part of the separator
RECURSIVE splitComma(_, _)
splitComma(s, piece) ==
  IF s = <<>> THEN <<piece>>
  ELSE IF Head(s) = "," THEN <<piece>> \o splitComma(trimStart(Tail(s)), <<>>)
  ELSE splitComma(Tail(s), Append(piece, Head(s)))

\* length of the longest prefix of s made of characters of (in = TRUE) or
\* outside (in = FALSE) the set C
RECURSIVE runLength(_, _, _)
runLength(s, C, in) ==
  IF s # <<>> /\ ((Head(s) \in C) = in) THEN 1 + runLength(Tail(s), C, in) ELSE 0

\* text.match(/[^.!?]+[.!?]+/g): the successive leftmost greedy matches;
\* <<>> when there is none (match returns null)
RECURSIVE matchSentences(_)
matchSentences(s) ==
  LET skip == runLength(s, Terminators, TRUE)
      rest == SubSeq(s, skip + 1, Len(s))
      body == runLength(rest, Terminators, FALSE)
      tail == SubSeq(rest, body + 1, Len(rest))
      term == runLength(tail, Terminators, TRUE)
  IN  IF body = 0 \/ term = 0 THEN <<>>
      ELSE <<SubSeq(rest, 1, body + term)>>
             \o matchSentences(SubSeq(rest, body + term + 1, Len(rest)))

(***************************************************************************)
(* splitTextIntoChunks.  The loop state is the pair (chunks, currentChunk).*)
(***************************************************************************)
\* if (currentChunk) chunks.push(currentChunk.trim());
flush(st) ==
  IF st.currentChunk # <<>> THEN Append(st.chunks, trim(st.currentChunk))
  ELSE st.chunks

\* variant of wordStep that cuts an overflowing word at maxLen characters
wordStepHardCut(st, word, maxLen) ==
  IF Len(trim(st.currentChunk \o <<" ">> \o word)) <= maxLen
  THEN [st EXCEPT !.currentChunk =
          st.currentChunk \o (IF st.currentChunk # <<>> THEN <<" ">> ELSE <<>>) \o word]
  ELSE IF Len(word) > maxLen
       THEN [chunks       |-> Append(flush(st), SubSeq(word, 1, maxLen)),
             currentChunk |-> SubSeq(word, maxLen + 1, Len(word))]
       ELSE [chunks |-> flush(st), currentChunk |-> word]

\* body of `for (const word of words)`
wordStep(st, word, maxLen) ==
  IF Len(trim(st.currentChunk \o <<" ">> \o word)) <= maxLen
  THEN [st EXCEPT !.currentChunk =
          st.currentChunk \o (IF st.currentChunk # <<>> THEN <<" ">> ELSE <<>>) \o word]
  ELSE [chunks |-> flush(st), currentChunk |-> word]

RECURSIVE wordLoop(_, _, _, _)
wordLoop(st, words, i, maxLen) ==
  IF i > Len(words) THEN st
  ELSE wordLoop(wordStep(st, words[i], maxLen), words, i + 1, maxLen)

\* body of `for (const part of parts)`
partStep(st, parts, j, maxLen) ==
  LET part          == parts[j]
      partWithComma == part \o (IF part = parts[Len(parts)] THEN <<>> ELSE <<",", " ">>)
  IN  IF Len(st.currentChunk \o partWithComma) <= maxLen
      THEN [st EXCEPT !.currentChunk = st.currentChunk \o partWithComma]
      ELSE IF Len(partWithComma) > maxLen
           THEN wordLoop([chunks |-> flush(st), currentChunk |-> <<>>],
                         splitSpace(partWithComma, <<>>), 1, maxLen)
           ELSE [chunks |-> flush(st), currentChunk |-> partWithComma]

RECURSIVE partLoop(_, _, _, _)
partLoop(st, parts, j, maxLen) ==
  IF j > Len(parts) THEN st
  ELSE partLoop(partStep(st, parts, j, maxLen), parts, j + 1, maxLen)

\* body of `for (const sentence of sentences)`
sentenceStep(st, sentence, maxLen) ==
  IF Len(st.currentChunk \o sentence) <= maxLen
  THEN [st EXCEPT !.currentChunk = st.currentChunk \o sentence]
  ELSE IF Len(sentence) > maxLen
       THEN partLoop([chunks |-> flush(st), currentChunk |-> <<>>],
                     splitComma(sentence, <<>>), 1, maxLen)
       ELSE [chunks |-> flush(st), currentChunk |-> sentence]

RECURSIVE sentenceLoop(_, _, _, _)
sentenceLoop(st, sentences, k, maxLen) ==
  IF k > Len(sentences) THEN st
  ELSE sentenceLoop(sentenceStep(st, sentences[k], maxLen), sentences, k + 1, maxLen)

\* variant of chunksOrEmpty without the guard: return chunks;
chunksUnguarded(cs) == cs

\* return chunks.length > 0 ? chunks : [''];
chunksOrEmpty(cs) == IF Len(cs) > 0 THEN cs ELSE << <<>> >>

splitTextIntoChunks(txt, maxLen) ==
  IF txt = <<>> \/ Len(txt) <= maxLen THEN <<txt>>
  ELSE LET m         == matchSentences(txt)
           sentences == IF m = <<>> THEN <<txt>> ELSE m
           st        == sentenceLoop([chunks |-> <<>>, currentChunk |-> <<>>],
                                     sentences, 1, maxLen)
       IN  chunksOrEmpty(flush(st))

(***************************************************************************)
(* Lines of the classifier.  A line is a sequence of tokens; '' is <<>>.   *)
(***************************************************************************)
BannerMark        == "==="               \* a run of '=' ("=== TITLE ===")
StepTokens        == {"Step 2"}          \* /\bStep\s*\d+\b/gi
WordCountTokens   == {"(75 words)"}      \* /\((?:\d+\s*-\s*)?\d+\s*words?\)/gi
Nbsp              == "nbsp"              \* the character U+00A0
Space             == " "                 \* an explicit whitespace character
HashSectionPrefix == "### Section 1:"    \* /^###\s*Section\s*\d+\s*:?\s*/i
SectionPrefix     == "Section 1:"        \* /^Section\s*\d+\s*:?\s*/i
Separator         == <<"---">>           \* the line '---'

\* ---------- TOC (locked) ----------
TOC ==
  << "1. Company Snapshot", "2. Business Summary", "3. Product Overview",
     "4. Vertical Specificity", "5. Customer Overview", "6. ICP Analysis",
     "7. Customer Jobs to Be Done", "8. Customer Success Stories",
     "9. Market Overview", "10. TAM / SAM / SOM", "11. Competitive Analysis",
     "12. Competitive Market Map" >>

CONTROL_TOC ==
  << "1. Data Gravity Analysis", "2. Workflow Gravity Analysis",
     "3. Account Gravity Analysis", "4. Network Effects Analysis",
     "5. Ecosystem Control Points Analysis", "6. Product Extension Analysis",
     "7. Final Control Points Conclusions",
     "8. Final Total Score and Classification" >>

\* `Company Overview:${t}` and `Part 2: Control Points Analysis:${t}`
keyCompany(t) == <<"Company Overview", t>>
keyControl(t) == <<"Part 2: Control Points Analysis", t>>

\* ---------- stripCruft ----------
RECURSIVE removeTokens(_, _)
removeTokens(line, T) ==
  IF line = <<>> THEN <<>>
  ELSE IF Head(line) \in T THEN removeTokens(Tail(line), T)
  ELSE <<Head(line)>> \o removeTokens(Tail(line), T)

RECURSIVE trimTokensStart(_)
trimTokensStart(line) ==
  IF line # <<>> /\ Head(line) = Space THEN trimTokensStart(Tail(line)) ELSE line

RECURSIVE trimTokensEnd(_)
trimTokensEnd(line) ==
  IF line # <<>> /\ line[Len(line)] = Space
  THEN trimTokensEnd(SubSeq(line, 1, Len(line) - 1)) ELSE line

\* /^=+\s*.*?=+\s*$/ : the line starts with a run of '=' and ends with one
isBanner(line) ==
  LET t == trimTokensEnd(line)
  IN  t # <<>> /\ Head(t) = BannerMark /\ t[Len(t)] = BannerMark

\* .replace(/^prefix\s*/, '')
stripPrefix(line, prefix) ==
  IF line # <<>> /\ Head(line) = prefix THEN trimTokensStart(Tail(line)) ELSE line

stripCruft(line) ==
  LET s0 == IF isBanner(line) THEN <<>> ELSE line
      s1 == removeTokens(s0, StepTokens)
      s2 == removeTokens(s1, WordCountTokens)
      s3 == [i \in 1..Len(s2) |-> IF s2[i] = Nbsp THEN Space ELSE s2[i]]
      s4 == trimTokensEnd(trimTokensStart(s3))
  IN  stripPrefix(stripPrefix(s4, HashSectionPrefix), SectionPrefix)

\* ---------- identifySection ----------
\* the table RX: pat holds the word groups the regular expression matches
RX ==
  << [pat |-> {"company snapshot", "company snap"},            key |-> keyCompany("1. Company Snapshot")],
     [pat |-> {"business summary", "executive summary"},        key |-> keyCompany("2. Business Summary")],
     [pat |-> {"product overview", "key modules", "value proposition"},
                                                                key |-> keyCompany("3. Product Overview")],
     [pat |-> {"vertical specific"},                            key |-> keyCompany("4. Vertical Specificity")],
     [pat |-> {"customer overview"},                            key |-> keyCompany("5. Customer Overview")],
     [pat |-> {"ICP", "ideal customer profile", "segmentation", "personas"},
                                                                key |-> keyCompany("6. ICP Analysis")],
     [pat |-> {"jobs to be done", "JTBD"},                      key |-> keyCompany("7. Customer Jobs to Be Done")],
     [pat |-> {"customer success", "case studies"},             key |-> keyCompany("8. Customer Success Stories")],
     [pat |-> {"market overview", "market context"},            key |-> keyCompany("9. Market Overview")],
     [pat |-> {"TAM / SAM / SOM", "market sizing", "TAM/SAM/SOM"},
                                                                key |-> keyCompany("10. TAM / SAM / SOM")],
     [pat |-> {"competitive analysis", "competitive landscape", "positioning"},
                                                                key |-> keyCompany("11. Competitive Analysis")],
     [pat |-> {"market map"},                                   key |-> keyCompany("12. Competitive Market Map")],
     [pat |-> {"data gravity"},                                 key |-> keyControl("1. Data Gravity Analysis")],
     [pat |-> {"workflow gravity"},                             key |-> keyControl("2. Workflow Gravity Analysis")],
     [pat |-> {"account gravity"},                              key |-> keyControl("3. Account Gravity Analysis")],
     [pat |-> {"network effects"},                              key |-> keyControl("4. Network Effects Analysis")],
     [pat |-> {"ecosystem control"},                            key |-> keyControl("5. Ecosystem Control Points Analysis")],
     [pat |-> {"product extension"},                            key |-> keyControl("6. Product Extension Analysis")],
     [pat |-> {"final control points conclusions"},             key |-> keyControl("7. Final Control Points Conclusions")],
     [pat |-> {"final total score", "classification"},          key |-> keyControl("8. Final Total Score and Classification")] >>

\* rx.test(line): some word group of the pattern occurs in the line
rxTest(pat, line) == \E i \in 1..Len(line) : line[i] \in pat

\* for (const [rx, key] of RX) if (rx.test(line)) return key; return null;
RECURSIVE hitFrom(_, _)
hitFrom(line, r) ==
  IF r > Len(RX) THEN Null
  ELSE IF rxTest(RX[r].pat, line) THEN RX[r].key
  ELSE hitFrom(line, r + 1)

\* variant of hit that answers the rule matched earliest in the line
RECURSIVE hitByPosition(_)
hitByPosition(line) ==
  IF line = <<>> THEN Null
  ELSE IF hitFrom(<<Head(line)>>, 1) # Null THEN hitFrom(<<Head(line)>>, 1)
  ELSE hitByPosition(Tail(line))

hit(line) == hitFrom(line, 1)

\* buckets.get(k) || []
bucketGet(b, k) == IF k \in DOMAIN b THEN b[k] ELSE <<>>

\* variant of push that creates a missing bucket and returns without pushing
pushSkipsFirst(b, k, txt) ==
  IF txt = <<>> THEN b
  ELSE IF k \notin DOMAIN b THEN [x \in DOMAIN b \cup {k} |-> IF x = k THEN <<>> ELSE b[x]]
  ELSE [b EXCEPT ![k] = Append(b[k], txt)]

\* the closure push(k, txt)
push(b, k, txt) ==
  IF txt = <<>> THEN b
  ELSE [x \in DOMAIN b \cup {k} |-> IF x = k THEN Append(bucketGet(b, k), txt) ELSE b[x]]

\* variant of DefaultKey: the first entry of TOC as default
DefaultKeyFirst == keyCompany("1. Company Snapshot")

\* the safe default of the loop
DefaultKey == keyCompany("2. Business Summary")

\* variant of classifyLine without `continue` after a header line: the header
\* is pushed as the first line of its own section
classifyLineKeepsHeader(st, raw) ==
  LET line  == stripCruft(raw)
      maybe == hit(line)
      cur   == IF st.current = Null THEN DefaultKey ELSE st.current
  IN  IF line = <<>> THEN st
      ELSE IF maybe # Null
           THEN [buckets |-> push(st.buckets, maybe, line), current |-> maybe]
      ELSE [buckets |-> push(st.buckets, cur, line), current |-> cur]

\* body of `for (const raw of allLines)`; st = [buckets, current]
classifyLine(st, raw) ==
  LET line  == stripCruft(raw)
      maybe == hit(line)
      cur   == IF st.current = Null THEN DefaultKey ELSE st.current
  IN  IF line = <<>> THEN st
      ELSE IF maybe # Null THEN [st EXCEPT !.current = maybe]
      ELSE [buckets |-> push(st.buckets, cur, line), current |-> cur]

\* ---------- compileMarkdown ----------
CompanyHeading == <<"#", "Company Overview">>
ControlHeading == <<"#", "Part 2: Control Points Analysis">>
sectionHeader(title) == <<"##", title>>        \* `## ${title}`

\* variant of emitSection without the `continue` on an empty body
emitSectionAlways(out, b, k, title) ==
  out \o <<sectionHeader(title)>> \o bucketGet(b, k) \o <<Separator>>

\* body of the two `for (const title of ...)` loops
emitSection(out, b, k, title) ==
  LET body == bucketGet(b, k)
  IN  IF Len(body) = 0 THEN out
      ELSE out \o <<sectionHeader(title)>> \o body \o <<Separator>>

RECURSIVE emitCompany(_, _, _)
emitCompany(out, b, i) ==
  IF i > Len(TOC) THEN out
  ELSE emitCompany(emitSection(out, b, keyCompany(TOC[i]), TOC[i]), b, i + 1)

RECURSIVE emitControl(_, _, _)
emitControl(out, b, i) ==
  IF i > Len(CONTROL_TOC) THEN out
  ELSE emitControl(emitSection(out, b, keyControl(CONTROL_TOC[i]), CONTROL_TOC[i]), b, i + 1)

\* variant of popSeparators with `if` in place of `while`
popSeparatorOnce(out) ==
  IF Len(out) > 0 /\ out[Len(out)] = Separator
  THEN SubSeq(out, 1, Len(out) - 1)
  ELSE out

\* while (md.length && md[md.length - 1] === '---') md.pop();
RECURSIVE popSeparators(_)
popSeparators(out) ==
  IF Len(out) > 0 /\ out[Len(out)] = Separator
  THEN popSeparators(SubSeq(out, 1, Len(out) - 1))
  ELSE out

\* the array md as it is joined with '\n'
compileMarkdown(b) ==
  LET m1 == emitCompany(<<CompanyHeading, <<>> >>, b, 1)
      m2 == emitControl(m1 \o <<ControlHeading, <<>> >>, b, 1)
  IN  popSeparators(m2)

(***************************************************************************)
(* A component that is not running: its variables at rest.                 *)
(***************************************************************************)
IdleChunk ==
  /\ text = <<>>
  /\ maxLength = 1
  /\ chunks = <<>>
  /\ cpc = "idle"

IdleSect ==
  /\ allLines = <<>>
  /\ buckets = <<>>
  /\ current = Null
  /\ md = <<>>
  /\ spc = "idle"

IdleStrip ==
  /\ rawLine = <<>>
  /\ once = <<>>
  /\ twice = <<>>
  /\ tpc = "idle"

IdleWrite ==
  /\ blocks = <<>>
  /\ requests = <<>>
  /\ inFlight = {}
  /\ destination = <<>>
  /\ wi = 0
  /\ wpc = "idle"

NoResponse == [status |-> 0, wrote |-> FALSE, notionPageId |-> Null, error |-> ""]

IdleHandler ==
  /\ req = [method |-> "POST", pageId |-> ""]
  /\ env = [DRY_RUN |-> FALSE, CLEAN_PARENT |-> FALSE]
  /\ source = [parent |-> <<>>, kind |-> <<>>]
  /\ stack = <<>>
  /\ acc = <<>>
  /\ calls = <<>>
  /\ lines = <<>>
  /\ markdown = <<>>
  /\ pages = <<>>
  /\ res = NoResponse
  /\ trace = <<>>
  /\ hpc = "idle"

IdlePolish ==
  /\ preq = [method |-> "GET", pageID |-> FALSE, sections |-> 0, raw |-> <<>>,
             useOpenAI |-> FALSE, includeTOC |-> FALSE]
  /\ penv = [NOTION_PARENT_ID |-> FALSE, OPENAI_API_KEY |-> FALSE]
  /\ ptext = <<>>
  /\ pblocks = <<>>
  /\ pcalls = <<>>
  /\ pdest = <<>>
  /\ pbatch = 1
  /\ pres = 0
  /\ ppc = "idle"

IdleChunkText ==
  /\ ctext = <<>>
  /\ csize = 1
  /\ cpieces = <<>>
  /\ ctpc = "idle"

NoReturn == [threw |-> FALSE, pageId |-> Null, markdownChunks |-> 0, jsonChunks |-> 0]

IdleCreatePage ==
  /\ cpMarkdown = <<>>
  /\ cpJson = <<>>
  /\ cpEnv = [DRY_RUN |-> TRUE, CLEAN_PARENT |-> FALSE]
  /\ cpCalls = <<>>
  /\ cpDest = <<>>
  /\ cpRet = NoReturn
  /\ cpPc = "idle"

IdleLine ==
  /\ lnLine = <<>>
  /\ lnMax = 0
  /\ lnBlocks = <<>>
  /\ lnPc = "idle"

Runs == {1, 2}       \* two invocations of the handler in one process

IdleRuns ==
  /\ rnLines = [r \in Runs |-> <<>>]
  /\ rnBuckets = [r \in Runs |-> <<>>]
  /\ rnMd = [r \in Runs |-> <<>>]
  /\ rnLast = [buckets |-> <<>>, current |-> Null]
  /\ rnPc = [r \in Runs |-> "idle"]

IdleParse ==
  /\ psBlock = <<>>
  /\ psRegexIndex = 0
  /\ psLastIndex = 0
  /\ psSections = <<>>
  /\ psIter = 0
  /\ psPc = "idle"

RestIdleChunk == IdleSect /\ IdleStrip /\ IdleWrite /\ IdleHandler /\ IdlePolish /\ IdleChunkText /\ IdleCreatePage /\ IdleLine /\ IdleRuns /\ IdleParse
RestIdleSect  == IdleChunk /\ IdleStrip /\ IdleWrite /\ IdleHandler /\ IdlePolish /\ IdleChunkText /\ IdleCreatePage /\ IdleLine /\ IdleRuns /\ IdleParse
RestIdleStrip == IdleChunk /\ IdleSect /\ IdleWrite /\ IdleHandler /\ IdlePolish /\ IdleChunkText /\ IdleCreatePage /\ IdleLine /\ IdleRuns /\ IdleParse
RestIdleWrite == IdleChunk /\ IdleSect /\ IdleStrip /\ IdleHandler /\ IdlePolish /\ IdleChunkText /\ IdleCreatePage /\ IdleLine /\ IdleRuns /\ IdleParse
RestIdleHandler == IdleChunk /\ IdleSect /\ IdleStrip /\ IdleWrite /\ IdlePolish /\ IdleChunkText /\ IdleCreatePage /\ IdleLine /\ IdleRuns /\ IdleParse
RestIdlePolish == IdleChunk /\ IdleSect /\ IdleStrip /\ IdleWrite /\ IdleHandler /\ IdleChunkText /\ IdleCreatePage /\ IdleLine /\ IdleRuns /\ IdleParse
RestIdleChunkText == IdleChunk /\ IdleSect /\ IdleStrip /\ IdleWrite /\ IdleHandler /\ IdlePolish /\ IdleCreatePage /\ IdleLine /\ IdleRuns /\ IdleParse
RestIdleCreatePage == IdleChunk /\ IdleSect /\ IdleStrip /\ IdleWrite /\ IdleHandler /\ IdlePolish /\ IdleChunkText /\ IdleLine /\ IdleRuns /\ IdleParse
RestIdleLine == IdleChunk /\ IdleSect /\ IdleStrip /\ IdleWrite /\ IdleHandler /\ IdlePolish /\ IdleChunkText /\ IdleCreatePage /\ IdleRuns /\ IdleParse
RestIdleRuns == IdleChunk /\ IdleSect /\ IdleStrip /\ IdleWrite /\ IdleHandler /\ IdlePolish /\ IdleChunkText /\ IdleCreatePage /\ IdleLine /\ IdleParse
RestIdleParse == IdleChunk /\ IdleSect /\ IdleStrip /\ IdleWrite /\ IdleHandler /\ IdlePolish /\ IdleChunkText /\ IdleCreatePage /\ IdleLine /\ IdleRuns

(***************************************************************************)
(* The chunker as a state machine: bind the arguments, then call.          *)
(***************************************************************************)
InitChunk ==
  /\ text \in StringsUpTo(MaxLen)
  /\ maxLength \in 1..MaxM
  /\ chunks = <<>>
  /\ cpc = "call"
  /\ RestIdleChunk

SplitText ==
  /\ cpc = "call"
  /\ chunks' = splitTextIntoChunks(text, maxLength)
  /\ cpc' = "done"
  /\ UNCHANGED <<text, maxLength>>
  /\ UNCHANGED exceptChunk

NextChunk == SplitText

SpecChunk == InitChunk /\ [][NextChunk]_vars

(***************************************************************************)
(* The classifier as a state machine: one step of the for loop per line,   *)
(* then compileMarkdown on the buckets.                                    *)
(***************************************************************************)
InputLines ==
  { <<"w">>, <<"---">>,
    <<"company snapshot">>, <<"data gravity">>, <<"business summary">>,
    <<"data gravity", "company snapshot">>,
    <<"Section 1:", "w">>, <<"Step 2">>, <<"Step 2", "data gravity">>,
    <<"===", "company snapshot", "===">>, <<"##", "Other heading">> }

InitSection ==
  /\ RestIdleSect
  /\ allLines = <<>>
  /\ buckets = <<>>
  /\ current = Null
  /\ md = <<>>
  /\ spc = "loop"

ClassifyLine ==
  /\ spc = "loop"
  /\ Len(allLines) < MaxLines
  /\ \E raw \in InputLines :
       LET st == classifyLine([buckets |-> buckets, current |-> current], raw)
       IN  /\ allLines' = Append(allLines, raw)
           /\ buckets' = st.buckets
           /\ current' = st.current
  /\ UNCHANGED <<md, spc>>
  /\ UNCHANGED exceptSect

Compile ==
  /\ spc = "loop"
  /\ md' = compileMarkdown(buckets)
  /\ spc' = "compiled"
  /\ UNCHANGED <<allLines, buckets, current>>
  /\ UNCHANGED exceptSect

NextSection == ClassifyLine \/ Compile

SpecSection == InitSection /\ [][NextSection]_vars

(***************************************************************************)
(* stripCruft alone: bind a line, apply the function, apply it again.      *)
(***************************************************************************)
StripTokens ==
  { "w", BannerMark, "Step 2", "(75 words)", Nbsp, Space,
    HashSectionPrefix, SectionPrefix }

RECURSIVE TokenLinesUpTo(_)
TokenLinesUpTo(n) ==
  IF n = 0 THEN {<<>>}
  ELSE LET S == TokenLinesUpTo(n - 1)
       IN  S \cup {Append(l, t) : l \in {x \in S : Len(x) = n - 1}, t \in StripTokens}

InitStrip ==
  /\ RestIdleStrip
  /\ rawLine \in TokenLinesUpTo(MaxTokens)
  /\ once = <<>>
  /\ twice = <<>>
  /\ tpc = "call"

StripOnce ==
  /\ tpc = "call"
  /\ once' = stripCruft(rawLine)
  /\ tpc' = "once"
  /\ UNCHANGED <<rawLine, twice>>
  /\ UNCHANGED exceptStrip

StripAgain ==
  /\ tpc = "once"
  /\ twice' = stripCruft(once)
  /\ tpc' = "twice"
  /\ UNCHANGED <<rawLine, once>>
  /\ UNCHANGED exceptStrip

NextStrip == StripOnce \/ StripAgain

SpecStrip == InitStrip /\ [][NextStrip]_vars

(***************************************************************************)
(* The batched writer: createCleanNotionPage builds blocks, creates the    *)
(* page with the first batch and addRemainingBlocks appends the rest.  A   *)
(* call to the destination is issued, stays in flight, and is answered by  *)
(* an acknowledgement (the destination has applied it) or by an error.     *)
(***************************************************************************)
MAX_BLOCKS_PER_REQUEST == 100

\* the title, the 'Table of Contents' heading and the divider are always built
FixedBlocks == 3

Min(a, b) == IF a <= b THEN a ELSE b

\* blocks.slice(0, MAX_BLOCKS_PER_REQUEST)
firstBatchWhole(b) == b

firstBatch(b) == SubSeq(b, 1, Min(MAX_BLOCKS_PER_REQUEST, Len(b)))

\* blocks.slice(MAX_BLOCKS_PER_REQUEST)
remainingBlocks(b) == SubSeq(b, MAX_BLOCKS_PER_REQUEST + 1, Len(b))

\* remainingBlocks.slice(i, Math.min(i + MAX_BLOCKS_PER_REQUEST, length))
batchAt(rem, i) == SubSeq(rem, i + 1, Min(i + MAX_BLOCKS_PER_REQUEST, Len(rem)))

\* await: the caller goes on only when the call it issued has been answered
mayIssueUnawaited(pending) == TRUE

mayIssue(pending) == pending = {}

\* variant of leftInPlace in which the catch removes what was written
rolledBack(dest) == <<>>

\* catch (error) { console.error(...); throw ... }: the page and the batches
\* already written stay as they are
leftInPlace(dest) == dest

InitWrite ==
  /\ RestIdleWrite
  /\ \E n \in FixedBlocks..MaxBlocks : blocks = [k \in 1..n |-> k]
  /\ requests = <<>>
  /\ inFlight = {}
  /\ destination = <<>>
  /\ wi = 0
  /\ wpc = "create"

\* notion.pages.create({..., children: blocks.slice(0, 100)}) is issued
IssueCreate ==
  /\ wpc = "create"
  /\ requests = <<>>
  /\ mayIssue(inFlight)
  /\ requests' = <<[op |-> "create", children |-> firstBatch(blocks)]>>
  /\ inFlight' = {1}
  /\ UNCHANGED <<blocks, destination, wi, wpc>>
  /\ UNCHANGED exceptWrite

\* the create call resolves: the page exists with the first batch
CreateAcked ==
  /\ wpc = "create"
  /\ 1 \in inFlight
  /\ inFlight' = inFlight \ {1}
  /\ destination' = requests[1].children
  /\ wi' = 0
  /\ wpc' = IF Len(blocks) > MAX_BLOCKS_PER_REQUEST THEN "append" ELSE "done"
  /\ UNCHANGED <<blocks, requests>>
  /\ UNCHANGED exceptWrite

\* one turn of the loop of addRemainingBlocks: the append call is issued
IssueAppend ==
  /\ wpc = "append"
  /\ wi < Len(remainingBlocks(blocks))
  /\ mayIssue(inFlight)
  /\ requests' = Append(requests,
                        [op |-> "append", children |-> batchAt(remainingBlocks(blocks), wi)])
  /\ inFlight' = inFlight \cup {Len(requests) + 1}
  /\ wi' = wi + MAX_BLOCKS_PER_REQUEST
  /\ UNCHANGED <<blocks, destination, wpc>>
  /\ UNCHANGED exceptWrite

\* an append call resolves: the destination has added the batch
AppendAcked ==
  /\ wpc = "append"
  /\ \E r \in inFlight :
       /\ inFlight' = inFlight \ {r}
       /\ destination' = destination \o requests[r].children
  /\ UNCHANGED <<blocks, requests, wi, wpc>>
  /\ UNCHANGED exceptWrite

\* the loop is over: return response.id
WriteReturns ==
  /\ wpc = "append"
  /\ wi >= Len(remainingBlocks(blocks))
  /\ inFlight = {}
  /\ wpc' = "done"
  /\ UNCHANGED <<blocks, requests, inFlight, destination, wi>>
  /\ UNCHANGED exceptWrite

\* a call in flight is rejected: catch, throw new Error('Failed to create page')
WriteFails ==
  /\ wpc \in {"create", "append"}
  /\ \E r \in inFlight : inFlight' = inFlight \ {r}
  /\ wpc' = "failed"
  /\ destination' = leftInPlace(destination)
  /\ UNCHANGED <<blocks, requests, wi>>
  /\ UNCHANGED exceptWrite

NextWrite ==
  IssueCreate \/ CreateAcked \/ IssueAppend \/ AppendAcked \/ WriteReturns \/ WriteFails

SpecWrite == InitWrite /\ [][NextWrite]_vars

(***************************************************************************)
(* The v1.1 handler: request checks, fetchBlocksDeep over the source tree  *)
(* (fetchAllChildren pages through the children of one block), extraction, *)
(* identifySection, compileMarkdown, createCleanPage, response.            *)
(* The source tree has the page as node 0 and the blocks 1..n; the         *)
(* children of a node are served in ascending order, in pages of any       *)
(* positive size up to page_size.                                          *)
(***************************************************************************)
PAGE_SIZE == 100

RootId == 0

Methods == {"POST", "GET"}

PageIds == {"src", ""}            \* a source id, or none (falsy)

NodeKinds == {"paragraph", "blank", "image"}

\* the trees on the blocks 1..n: the parent of a block is the page or an
\* earlier block
Trees(n) == {f \in [1..n -> 0..(n - 1)] : \A k \in 1..n : f[k] < k}

IsChildOf(src, p, k) == src.parent[k] = p

\* the ordered child list of p, as the collaborator holds it
Children(src, p) ==
  LET Sel(k) == IsChildOf(src, p, k)
  IN  SelectSeq([k \in 1..Len(src.parent) |-> k], Sel)

\* b.has_children
hasChildren(src, b) == Children(src, b) # <<>>

\* a cursor is an opaque non-empty token naming a position in a child list
cursorAt(pos) == <<"cursor", pos>>
cursorPos(c) == IF c = Null THEN 0 ELSE c[2]

\* the response of notion.blocks.children.list to (block_id, start_cursor)
\* when the collaborator serves m items
listResponse(src, id, c, m) ==
  LET all  == Children(src, id)
      from == cursorPos(c)
      more == from + m < Len(all)
  IN  [results |-> SubSeq(all, from + 1, from + m),
       has_more |-> more,
       next_cursor |-> IF more THEN cursorAt(from + m) ELSE Null]

\* the page sizes the collaborator may serve from position `from`
servable(src, id, c) ==
  LET rest == Len(Children(src, id)) - cursorPos(c)
  IN  IF rest = 0 THEN {0} ELSE 1..Min(PAGE_SIZE, rest)

\* cursor = res.has_more ? res.next_cursor : undefined
cursorAfterFirstPage(r) == Null

cursorAfter(r) == IF r.has_more THEN r.next_cursor ELSE Null

\* out.push(...res.results)
collect(out, results) == out \o results

\* a frame of fetchBlocksDeep(block_id, acc): first fetchAllChildren
\* ("list": out, cursor), then the for loop over kids ("loop": kids, k)
newFrame(id) ==
  [id |-> id, phase |-> "list", out |-> <<>>, cursor |-> Null, kids |-> <<>>, k |-> 1]

\* await fetchBlocksDeep(b.id, acc): the callee runs before the loop resumes
descendLater(frames, b) == Append(frames, newFrame(b))

descend(frames, b) == <<newFrame(b)>> \o frames

\* blockToLines, on block kinds
blockToLines(kind) ==
  CASE kind = "paragraph" -> << <<"w">> >>
    [] kind = "blank"     -> << <<>> >>
    [] OTHER              -> <<>>

\* blocks.flatMap(blockToLines).filter(Boolean)
RECURSIVE extractLines(_, _)
extractLines(src, bs) ==
  IF bs = <<>> THEN <<>>
  ELSE LET IsTruthy(l) == l # <<>>
       IN  SelectSeq(blockToLines(src.kind[Head(bs)]), IsTruthy) \o extractLines(src, Tail(bs))

\* identifySection(allLines): the for loop from empty buckets
RECURSIVE identifyFrom(_, _)
identifyFrom(st, ls) ==
  IF ls = <<>> THEN st.buckets ELSE identifyFrom(classifyLine(st, Head(ls)), Tail(ls))

identifySection(ls) == identifyFrom([buckets |-> <<>>, current |-> Null], ls)

\* a collaborator call as recorded in calls; outcome is "ok", "failed" or
\* "pending" (issued, not yet answered)
ListCall(id, c, r) ==
  [op |-> "list", block_id |-> id, start_cursor |-> c, outcome |-> "ok",
   results |-> r.results, has_more |-> r.has_more, next_cursor |-> r.next_cursor]

FailedListCall(id, c) ==
  [op |-> "list", block_id |-> id, start_cursor |-> c, outcome |-> "failed",
   results |-> <<>>, has_more |-> FALSE, next_cursor |-> Null]

CreateCall(outcome) ==
  [op |-> "create", block_id |-> Null, start_cursor |-> Null, outcome |-> outcome,
   results |-> <<>>, has_more |-> FALSE, next_cursor |-> Null]

Respond(status, wrote, pid, error) ==
  [status |-> status, wrote |-> wrote, notionPageId |-> pid, error |-> error]

\* variant of skipsWrite that never returns early
skipsWriteNever(e) == FALSE

\* if (DRY_RUN) return { pageId: null, markdownChunks: 0, jsonChunks: 0 }
skipsWrite(e) == e.DRY_RUN

\* variant of afterCatch in which a run goes on after the failure
afterCatchResumes == "classify"

\* catch (e) { ...; return res.status(500).json(...) }: the run is over
afterCatch == "done"

InitHandler ==
  /\ RestIdleHandler
  /\ req \in [method : Methods, pageId : PageIds]
  /\ env \in [DRY_RUN : BOOLEAN, CLEAN_PARENT : BOOLEAN]
  /\ \E n \in 0..MaxNodes :
       source \in [parent : Trees(n), kind : [1..n -> NodeKinds]]
  /\ stack = <<>>
  /\ acc = <<>>
  /\ calls = <<>>
  /\ lines = <<>>
  /\ markdown = <<>>
  /\ pages = <<>>
  /\ res = NoResponse
  /\ trace = <<>>
  /\ hpc = "start"

\* if (!pageId) return res.status(400).json({ error: 'Missing pageId' })
RejectMissingId ==
  /\ hpc = "start"
  /\ req.pageId = ""
  /\ res' = Respond(400, FALSE, Null, "Missing pageId")
  /\ hpc' = "done"
  /\ UNCHANGED <<req, env, source, stack, acc, calls, lines, markdown, pages, trace>>
  /\ UNCHANGED exceptHandler

\* const blocks = await fetchBlocksDeep(pageId)
StartFetch ==
  /\ hpc = "start"
  /\ req.pageId # ""
  /\ stack' = <<newFrame(RootId)>>
  /\ trace' = <<"FETCH">>
  /\ hpc' = "fetch"
  /\ UNCHANGED <<req, env, source, acc, calls, lines, markdown, pages, res>>
  /\ UNCHANGED exceptHandler

\* one turn of the do-while loop of fetchAllChildren: the call and its answer
ListPage ==
  /\ hpc = "fetch"
  /\ stack # <<>>
  /\ Head(stack).phase = "list"
  /\ LET top == Head(stack)
     IN  \E m \in servable(source, top.id, top.cursor) :
           LET r   == listResponse(source, top.id, top.cursor, m)
               out == collect(top.out, r.results)
               cur == cursorAfter(r)
           IN  /\ calls' = Append(calls, ListCall(top.id, top.cursor, r))
               /\ stack' =
                    <<IF cur # Null
                      THEN [top EXCEPT !.out = out, !.cursor = cur]
                      ELSE [top EXCEPT !.out = out, !.cursor = cur,
                                       !.phase = "loop", !.kids = out]>> \o Tail(stack)
  /\ UNCHANGED <<req, env, source, acc, lines, markdown, pages, res, trace, hpc>>
  /\ UNCHANGED exceptHandler

\* the list call is rejected: the handler's catch answers 500
ListFails ==
  /\ hpc = "fetch"
  /\ stack # <<>>
  /\ Head(stack).phase = "list"
  /\ calls' = Append(calls, FailedListCall(Head(stack).id, Head(stack).cursor))
  /\ res' = Respond(500, FALSE, Null, "list failed")
  /\ hpc' = afterCatch
  /\ UNCHANGED <<req, env, source, stack, acc, lines, markdown, pages, trace>>
  /\ UNCHANGED exceptHandler

\* one turn of the for loop of fetchBlocksDeep: acc.push(b), then descend
Visit ==
  /\ hpc = "fetch"
  /\ stack # <<>>
  /\ Head(stack).phase = "loop"
  /\ Head(stack).k <= Len(Head(stack).kids)
  /\ LET top  == Head(stack)
         b    == top.kids[top.k]
         rest == <<[top EXCEPT !.k = top.k + 1]>> \o Tail(stack)
     IN  /\ acc' = Append(acc, b)
         /\ stack' = IF hasChildren(source, b) THEN descend(rest, b) ELSE rest
  /\ UNCHANGED <<req, env, source, calls, lines, markdown, pages, res, trace, hpc>>
  /\ UNCHANGED exceptHandler

\* the for loop is over: return acc
FetchReturns ==
  /\ hpc = "fetch"
  /\ stack # <<>>
  /\ Head(stack).phase = "loop"
  /\ Head(stack).k > Len(Head(stack).kids)
  /\ stack' = Tail(stack)
  /\ hpc' = IF Tail(stack) = <<>> THEN "classify" ELSE "fetch"
  /\ UNCHANGED <<req, env, source, acc, calls, lines, markdown, pages, res, trace>>
  /\ UNCHANGED exceptHandler

\* lines, identifySection, compileMarkdown, jsonObj
ClassifyAndCompile ==
  /\ hpc = "classify"
  /\ lines' = extractLines(source, acc)
  /\ markdown' = compileMarkdown(identifySection(extractLines(source, acc)))
  /\ trace' = trace \o <<"EXTRACT", "CLASSIFY", "REASSEMBLE">>
  /\ hpc' = "write"
  /\ UNCHANGED <<req, env, source, stack, acc, calls, pages, res>>
  /\ UNCHANGED exceptHandler

\* createCleanPage: if (DRY_RUN) return { pageId: null, ... }; then 200
DryRunReturns ==
  /\ hpc = "write"
  /\ skipsWrite(env)
  /\ res' = Respond(200, ~env.DRY_RUN, Null, "")
  /\ hpc' = "done"
  /\ UNCHANGED <<req, env, source, stack, acc, calls, lines, markdown, pages, trace>>
  /\ UNCHANGED exceptHandler

\* createCleanPage: if (!CLEAN_PARENT) throw; the handler's catch answers 500
ParentMissing ==
  /\ hpc = "write"
  /\ ~skipsWrite(env)
  /\ ~env.CLEAN_PARENT
  /\ res' = Respond(500, FALSE, Null, "NOTION_CLEANED_PARENT_PAGE_ID is missing")
  /\ hpc' = afterCatch
  /\ UNCHANGED <<req, env, source, stack, acc, calls, lines, markdown, pages, trace>>
  /\ UNCHANGED exceptHandler

\* createCleanPage: notion.pages.create({ parent, properties, children })
IssuePageCreate ==
  /\ hpc = "write"
  /\ ~skipsWrite(env)
  /\ env.CLEAN_PARENT
  /\ calls' = Append(calls, CreateCall("pending"))
  /\ trace' = trace \o <<"SERIALIZE", "CREATE">>
  /\ hpc' = "creating"
  /\ UNCHANGED <<req, env, source, stack, acc, lines, markdown, pages, res>>
  /\ UNCHANGED exceptHandler

\* the create call resolves: the page exists; the handler answers 200
PageCreated ==
  /\ hpc = "creating"
  /\ calls' = [calls EXCEPT ![Len(calls)] = CreateCall("ok")]
  /\ pages' = Append(pages, markdown)
  /\ res' = Respond(200, ~env.DRY_RUN, <<"page", Len(pages) + 1>>, "")
  /\ trace' = Append(trace, "DONE")
  /\ hpc' = "done"
  /\ UNCHANGED <<req, env, source, stack, acc, lines, markdown>>
  /\ UNCHANGED exceptHandler

\* the create call is rejected: the handler's catch answers 500
PageCreateFails ==
  /\ hpc = "creating"
  /\ calls' = [calls EXCEPT ![Len(calls)] = CreateCall("failed")]
  /\ res' = Respond(500, FALSE, Null, "create failed")
  /\ hpc' = afterCatch
  /\ UNCHANGED <<req, env, source, stack, acc, lines, markdown, pages, trace>>
  /\ UNCHANGED exceptHandler

NextHandler ==
  \/ RejectMissingId \/ StartFetch
  \/ ListPage \/ ListFails \/ Visit \/ FetchReturns
  \/ ClassifyAndCompile
  \/ DryRunReturns \/ ParentMissing \/ IssuePageCreate \/ PageCreated \/ PageCreateFails

SpecHandler == InitHandler /\ [][NextHandler]_vars

(***************************************************************************)
(* The handler with the optional polishing step: request checks, the       *)
(* sections taken from the body or made from the raw text (polished by     *)
(* maybePolishWithOpenAI when asked), blocks, page creation in batches.    *)
(* body.sections is modelled by its length (0: not an array) and a block   *)
(* by its kind and text.                                                   *)
(***************************************************************************)
PolishMethods == {"GET", "POST", "PUT"}

SectionCounts == {0, 1, MaxSections}

RawTexts == {<<>>, <<"a">>}

\* what the completion may hold: text, blanks only, nothing
PolishContents == {<<"b">>, <<" ", "b">>, <<" ">>, <<>>}

\* body.pageID || process.env.NOTION_PARENT_ID
parentId(r, e) == r.pageID \/ e.NOTION_PARENT_ID

\* resp.choices?.[0]?.message?.content?.trim() || raw
polishedOrRaw(content, raw) == IF trim(content) # <<>> THEN trim(content) ELSE raw

\* the blocks built from the sections: table of contents, then one heading
\* and one paragraph for the raw text, or one paragraph per given section
buildBlocks(r, txt) ==
  LET toc  == IF r.includeTOC THEN << <<"toc">> >> ELSE <<>>
      body == IF r.sections > 0
              THEN [k \in 1..r.sections |-> <<"paragraph", k>>]
              ELSE << <<"heading">>, <<"paragraph", txt>> >>
  IN  toc \o body

\* chunkArray(remainder, 100)[k - 1]
chunkArrayAt(arr, k) ==
  SubSeq(arr, (k - 1) * MAX_BLOCKS_PER_REQUEST + 1, Min(k * MAX_BLOCKS_PER_REQUEST, Len(arr)))

PCall(op, outcome) == [op |-> op, outcome |-> outcome]

InitPolish ==
  /\ RestIdlePolish
  /\ preq \in [method : PolishMethods, pageID : BOOLEAN, sections : SectionCounts,
                raw : RawTexts, useOpenAI : BOOLEAN, includeTOC : BOOLEAN]
  /\ penv \in [NOTION_PARENT_ID : BOOLEAN, OPENAI_API_KEY : BOOLEAN]
  /\ ptext = <<>>
  /\ pblocks = <<>>
  /\ pcalls = <<>>
  /\ pdest = <<>>
  /\ pbatch = 1
  /\ pres = 0
  /\ ppc = "start"

PolishFrame == <<preq, penv>>

\* if (req.method === "GET") return res.status(200)
AnswerGet ==
  /\ ppc = "start"
  /\ preq.method = "GET"
  /\ pres' = 200
  /\ ppc' = "done"
  /\ UNCHANGED <<PolishFrame, ptext, pblocks, pcalls, pdest, pbatch>>
  /\ UNCHANGED exceptPolish

\* if (req.method !== "POST") return res.status(405)
RejectMethod ==
  /\ ppc = "start"
  /\ preq.method \notin {"GET", "POST"}
  /\ pres' = 405
  /\ ppc' = "done"
  /\ UNCHANGED <<PolishFrame, ptext, pblocks, pcalls, pdest, pbatch>>
  /\ UNCHANGED exceptPolish

\* if (!parentId) return res.status(400)
RejectMissingParent ==
  /\ ppc = "start"
  /\ preq.method = "POST"
  /\ ~parentId(preq, penv)
  /\ pres' = 400
  /\ ppc' = "done"
  /\ UNCHANGED <<PolishFrame, ptext, pblocks, pcalls, pdest, pbatch>>
  /\ UNCHANGED exceptPolish

AcceptRequest ==
  /\ ppc = "start"
  /\ preq.method = "POST"
  /\ parentId(preq, penv)
  /\ ppc' = "content"
  /\ UNCHANGED <<PolishFrame, ptext, pblocks, pcalls, pdest, pbatch, pres>>
  /\ UNCHANGED exceptPolish

\* sections is the array of the body
TakeSections ==
  /\ ppc = "content"
  /\ preq.sections > 0
  /\ ppc' = "build"
  /\ UNCHANGED <<PolishFrame, ptext, pblocks, pcalls, pdest, pbatch, pres>>
  /\ UNCHANGED exceptPolish

\* body.useOpenAI is off: text = body.raw
TakeRaw ==
  /\ ppc = "content"
  /\ preq.sections = 0 /\ preq.raw # <<>>
  /\ ~preq.useOpenAI
  /\ ptext' = preq.raw
  /\ ppc' = "build"
  /\ UNCHANGED <<PolishFrame, pblocks, pcalls, pdest, pbatch, pres>>
  /\ UNCHANGED exceptPolish

\* maybePolishWithOpenAI: if (!openai) return raw
PolishAbsent ==
  /\ ppc = "content"
  /\ preq.sections = 0 /\ preq.raw # <<>>
  /\ preq.useOpenAI
  /\ ~penv.OPENAI_API_KEY
  /\ ptext' = preq.raw
  /\ ppc' = "build"
  /\ UNCHANGED <<PolishFrame, pblocks, pcalls, pdest, pbatch, pres>>
  /\ UNCHANGED exceptPolish

\* maybePolishWithOpenAI: the completion call resolves
PolishReturns ==
  /\ ppc = "content"
  /\ preq.sections = 0 /\ preq.raw # <<>>
  /\ preq.useOpenAI
  /\ penv.OPENAI_API_KEY
  /\ \E content \in PolishContents : ptext' = polishedOrRaw(content, preq.raw)
  /\ pcalls' = Append(pcalls, PCall("polish", "ok"))
  /\ ppc' = "build"
  /\ UNCHANGED <<PolishFrame, pblocks, pdest, pbatch, pres>>
  /\ UNCHANGED exceptPolish

\* maybePolishWithOpenAI: the completion call is rejected; nothing catches it
\* before the handler's catch, which answers 500
PolishFails ==
  /\ ppc = "content"
  /\ preq.sections = 0 /\ preq.raw # <<>>
  /\ preq.useOpenAI
  /\ penv.OPENAI_API_KEY
  /\ pcalls' = Append(pcalls, PCall("polish", "failed"))
  /\ pres' = 500
  /\ ppc' = "done"
  /\ UNCHANGED <<PolishFrame, ptext, pblocks, pdest, pbatch>>
  /\ UNCHANGED exceptPolish

\* if (!sections) return res.status(400)
RejectNoContent ==
  /\ ppc = "content"
  /\ preq.sections = 0 /\ preq.raw = <<>>
  /\ pres' = 400
  /\ ppc' = "done"
  /\ UNCHANGED <<PolishFrame, ptext, pblocks, pcalls, pdest, pbatch>>
  /\ UNCHANGED exceptPolish

\* blocks are built; notion.pages.create with first100 resolves
CreateFirst100 ==
  /\ ppc = "build"
  /\ pblocks' = buildBlocks(preq, ptext)
  /\ pcalls' = Append(pcalls, PCall("create", "ok"))
  /\ pdest' = firstBatch(buildBlocks(preq, ptext))
  /\ pbatch' = 1
  /\ ppc' = "append"
  /\ UNCHANGED <<PolishFrame, ptext, pres>>
  /\ UNCHANGED exceptPolish

\* notion.pages.create is rejected: the handler's catch answers 500
CreateFirst100Fails ==
  /\ ppc = "build"
  /\ pblocks' = buildBlocks(preq, ptext)
  /\ pcalls' = Append(pcalls, PCall("create", "failed"))
  /\ pres' = 500
  /\ ppc' = "done"
  /\ UNCHANGED <<PolishFrame, ptext, pdest, pbatch>>
  /\ UNCHANGED exceptPolish

\* for (const batch of chunkArray(remainder, 100)): one append resolves
AppendBatch ==
  /\ ppc = "append"
  /\ chunkArrayAt(remainingBlocks(pblocks), pbatch) # <<>>
  /\ pcalls' = Append(pcalls, PCall("append", "ok"))
  /\ pdest' = pdest \o chunkArrayAt(remainingBlocks(pblocks), pbatch)
  /\ pbatch' = pbatch + 1
  /\ UNCHANGED <<PolishFrame, ptext, pblocks, pres, ppc>>
  /\ UNCHANGED exceptPolish

\* an append is rejected: the handler's catch answers 500
AppendBatchFails ==
  /\ ppc = "append"
  /\ chunkArrayAt(remainingBlocks(pblocks), pbatch) # <<>>
  /\ pcalls' = Append(pcalls, PCall("append", "failed"))
  /\ pres' = 500
  /\ ppc' = "done"
  /\ UNCHANGED <<PolishFrame, ptext, pblocks, pdest, pbatch>>
  /\ UNCHANGED exceptPolish

\* return res.status(200).json({ ok: true, pageId: page.id, ... })
RespondOk ==
  /\ ppc = "append"
  /\ chunkArrayAt(remainingBlocks(pblocks), pbatch) = <<>>
  /\ pres' = 200
  /\ ppc' = "done"
  /\ UNCHANGED <<PolishFrame, ptext, pblocks, pcalls, pdest, pbatch>>
  /\ UNCHANGED exceptPolish

NextPolish ==
  \/ AnswerGet \/ RejectMethod \/ RejectMissingParent \/ AcceptRequest
  \/ TakeSections \/ TakeRaw \/ PolishAbsent \/ PolishReturns \/ PolishFails
  \/ RejectNoContent
  \/ CreateFirst100 \/ CreateFirst100Fails \/ AppendBatch \/ AppendBatchFails \/ RespondOk

SpecPolish == InitPolish /\ [][NextPolish]_vars

(***************************************************************************)
(* chunkText of the v1.1 cleaner, on character sequences.  The texts are   *)
(* made of a few segments (a word of a given length, a blank, a newline)   *)
(* so that the lengths 1900 and 500 of the code are reached.               *)
(***************************************************************************)
CHUNK_SIZE == 1900          \* size = 1900

NEWLINE_MARGIN == 500       \* if (nl > i + 500)

Newline == "\n"

WordLengths == {1, NEWLINE_MARGIN + 100, CHUNK_SIZE}

\* a word of n letters (SubSeq makes it a tuple)
WordOf(n) == SubSeq([k \in 1..n |-> "a"], 1, n)

Segments == {WordOf(n) : n \in WordLengths} \cup {<<Newline>>, <<Space>>}

RECURSIVE TextsOfSegments(_)
TextsOfSegments(n) ==
  IF n = 0 THEN {<<>>}
  ELSE LET S == TextsOfSegments(n - 1)
       IN  S \cup {t \o g : t \in S, g \in Segments}

\* text.lastIndexOf('\n', end), with 0-based positions; -1 when absent
lastIndexOfNewline(t, end) ==
  LET S == {j \in 0..Min(end, Len(t) - 1) : t[j + 1] = Newline}
  IN  IF S = {} THEN -1 ELSE CHOOSE j \in S : \A m \in S : m <= j

\* variant of slice that starts one character late
sliceFromNext(t, i, end) == SubSeq(t, i + 2, end)

\* text.slice(i, end)
slice(t, i, end) == SubSeq(t, i + 1, end)

\* the while loop of chunkText from position i with the pieces out
RECURSIVE chunkTextFrom(_, _, _, _)
chunkTextFrom(t, size, i, out) ==
  IF i >= Len(t) THEN out
  ELSE LET end0 == Min(i + size, Len(t))
           nl   == lastIndexOfNewline(t, end0)
           end  == IF nl > i + NEWLINE_MARGIN THEN nl ELSE end0
       IN  chunkTextFrom(t, size, end, Append(out, slice(t, i, end)))

chunkText(t, size) == chunkTextFrom(t, size, 0, <<>>)

InitChunkText ==
  /\ RestIdleChunkText
  /\ ctext \in TextsOfSegments(MaxSegments)
  /\ csize = CHUNK_SIZE
  /\ cpieces = <<>>
  /\ ctpc = "call"

ChunkTextCall ==
  /\ ctpc = "call"
  /\ cpieces' = chunkText(ctext, csize)
  /\ ctpc' = "done"
  /\ UNCHANGED <<ctext, csize>>
  /\ UNCHANGED exceptChunkText

NextChunkText == ChunkTextCall

SpecChunkText == InitChunkText /\ [][NextChunkText]_vars

(***************************************************************************)
(* createCleanPage of the v1.1 cleaner: the markdown and the serialised    *)
(* JSON are cut by chunkText, every piece becomes a callout and a code     *)
(* block, and all the blocks go into one pages.create request.             *)
(***************************************************************************)
\* the label of a callout: `${title}${label}`
partLabel(title, idx, n) ==
  IF n > 1 THEN <<title, "Part", idx, "of", n>> ELSE <<title>>

\* chunks.forEach: a callout and a code block for every piece
RECURSIVE pieceBlocks(_, _, _)
pieceBlocks(title, pieces, idx) ==
  IF idx > Len(pieces) THEN <<>>
  ELSE << [type |-> "callout", content |-> partLabel(title, idx, Len(pieces))],
          [type |-> "code", content |-> pieces[idx]] >>
       \o pieceBlocks(title, pieces, idx + 1)

makeCodeBlocks(title, t) ==
  LET pieces == chunkText(t, CHUNK_SIZE)
  IN  [blocks |-> <<[type |-> "heading_2", content |-> <<title>>]>>
                    \o pieceBlocks(title, pieces, 1),
       count  |-> Len(pieces)]

\* the children handed to notion.pages.create
pageChildren(m, j) ==
  makeCodeBlocks("Gamma-ready Markdown", m).blocks
    \o makeCodeBlocks("JSON (for QA / App layer)", j).blocks

PagesCreate(children, outcome) ==
  [op |-> "pages.create", children |-> children, outcome |-> outcome]

\* numbers of whole pieces of the markdown, and of the serialised JSON
MarkdownPieces == {0, 1, 2, 3, MaxChunks}

JsonPieces == {1, 2, 3}

InitCreatePage ==
  /\ RestIdleCreatePage
  /\ cpMarkdown \in {WordOf(k * CHUNK_SIZE) : k \in MarkdownPieces}
  /\ cpJson \in {WordOf(k * CHUNK_SIZE - 1) : k \in JsonPieces}
  /\ cpEnv \in [DRY_RUN : BOOLEAN, CLEAN_PARENT : BOOLEAN]
  /\ cpCalls = <<>>
  /\ cpDest = <<>>
  /\ cpRet = NoReturn
  /\ cpPc = "start"

\* if (DRY_RUN) return { pageId: null, markdownChunks: 0, jsonChunks: 0 }
CreatePageDryRun ==
  /\ cpPc = "start"
  /\ cpEnv.DRY_RUN
  /\ cpRet' = NoReturn
  /\ cpPc' = "done"
  /\ UNCHANGED <<cpMarkdown, cpJson, cpEnv, cpCalls, cpDest>>
  /\ UNCHANGED exceptCreatePage

\* if (!CLEAN_PARENT) throw
CreatePageNoParent ==
  /\ cpPc = "start"
  /\ ~cpEnv.DRY_RUN
  /\ ~cpEnv.CLEAN_PARENT
  /\ cpRet' = [NoReturn EXCEPT !.threw = TRUE]
  /\ cpPc' = "done"
  /\ UNCHANGED <<cpMarkdown, cpJson, cpEnv, cpCalls, cpDest>>
  /\ UNCHANGED exceptCreatePage

\* the blocks are built and notion.pages.create is called with all of them
CreatePageIssue ==
  /\ cpPc = "start"
  /\ ~cpEnv.DRY_RUN
  /\ cpEnv.CLEAN_PARENT
  /\ cpCalls' = Append(cpCalls, PagesCreate(pageChildren(cpMarkdown, cpJson), "pending"))
  /\ cpPc' = "creating"
  /\ UNCHANGED <<cpMarkdown, cpJson, cpEnv, cpDest, cpRet>>
  /\ UNCHANGED exceptCreatePage

CreatePageAnswered ==
  /\ cpPc = "creating"
  /\ cpCalls' = [cpCalls EXCEPT ![Len(cpCalls)].outcome = "ok"]
  /\ cpDest' = cpCalls[Len(cpCalls)].children
  /\ cpRet' = [threw |-> FALSE, pageId |-> <<"page", 1>>,
               markdownChunks |-> makeCodeBlocks("Gamma-ready Markdown", cpMarkdown).count,
               jsonChunks |-> makeCodeBlocks("JSON (for QA / App layer)", cpJson).count]
  /\ cpPc' = "done"
  /\ UNCHANGED <<cpMarkdown, cpJson, cpEnv>>
  /\ UNCHANGED exceptCreatePage

CreatePageRejected ==
  /\ cpPc = "creating"
  /\ cpCalls' = [cpCalls EXCEPT ![Len(cpCalls)].outcome = "failed"]
  /\ cpRet' = [NoReturn EXCEPT !.threw = TRUE]
  /\ cpPc' = "done"
  /\ UNCHANGED <<cpMarkdown, cpJson, cpEnv, cpDest>>
  /\ UNCHANGED exceptCreatePage

NextCreatePage ==
  \/ CreatePageDryRun \/ CreatePageNoParent \/ CreatePageIssue
  \/ CreatePageAnswered \/ CreatePageRejected

SpecCreatePage == InitCreatePage /\ [][NextCreatePage]_vars

(***************************************************************************)
(* processContentLine of the polishing cleaner.  The code reads the chunk  *)
(* limit from the constant MAX_TEXT_LENGTH; here the limit is the argument *)
(* maxLen, so that lines longer than the limit are short texts.            *)
(***************************************************************************)
MAX_TEXT_LENGTH == 1900      \* const MAX_TEXT_LENGTH = 1900

COLON_WINDOW == 50           \* trimmed.indexOf(':') < 50

KEY_LIMIT == 100             \* key.length < 100

MinLimit == 3                \* truncateText cuts at maxLength - 3

\* the class of the bullet regex: U+2022 (bullet), '-', U+2192 (arrow)
BulletMarks == {"bullet", "-", "arrow"}

Digits == {"0", "1", "2", "3", "4", "5", "6", "7", "8", "9"}    \* \d

LineChars == {"a", " ", ".", ":", "-", "1"}

RECURSIVE LinesUpTo(_)
LinesUpTo(n) ==
  IF n = 0 THEN {<<>>}
  ELSE LET S == LinesUpTo(n - 1)
       IN  S \cup {Append(s, c) : s \in {t \in S : Len(t) = n - 1}, c \in LineChars}

\* trimmed.indexOf(':'), 0-based; -1 when absent
indexOfColon(s) ==
  LET n == runLength(s, {":"}, FALSE)
  IN  IF n = Len(s) THEN -1 ELSE n

\* text.substring(0, maxLength - 3) + '...'
truncateText(t, maxLen) ==
  IF t = <<>> \/ Len(t) <= maxLen THEN t
  ELSE SubSeq(t, 1, maxLen - 3) \o <<".", ".", ".">>

richText(content, bold) == [content |-> content, bold |-> bold]

createParagraphBold(t, maxLen) ==
  [type |-> "paragraph", rich_text |-> <<richText(truncateText(t, maxLen), TRUE)>>]

\* for (const chunk of chunks) blocks.push({ type, rich_text: [chunk] })
RECURSIVE pushChunks(_, _, _, _)
pushChunks(bs, type, cs, k) ==
  IF k > Len(cs) THEN bs
  ELSE pushChunks(Append(bs, [type |-> type, rich_text |-> <<richText(cs[k], FALSE)>>]),
                  type, cs, k + 1)

addTextChunks(bs, t, maxLen) ==
  pushChunks(bs, "paragraph", splitTextIntoChunks(t, maxLen), 1)

addBulletChunks(bs, t, maxLen) ==
  pushChunks(bs, "bulleted_list_item", splitTextIntoChunks(t, maxLen), 1)

addNumberedChunks(bs, t, maxLen) ==
  pushChunks(bs, "numbered_list_item", splitTextIntoChunks(t, maxLen), 1)

\* the key-value branch of processContentLine
keyValueLine(bs, trimmed, maxLen) ==
  LET colonIndex == indexOfColon(trimmed)
      key        == trim(SubSeq(trimmed, 1, colonIndex))
      value      == trim(SubSeq(trimmed, colonIndex + 2, Len(trimmed)))
  IN  IF Len(key) < KEY_LIMIT /\ value # <<>>
      THEN IF Len(key \o <<":", " ">> \o value) <= maxLen
           THEN Append(bs, [type |-> "paragraph",
                            rich_text |-> << richText(key \o <<":", " ">>, TRUE),
                                             richText(value, FALSE) >>])
           ELSE addTextChunks(Append(bs, createParagraphBold(key \o <<":">>, maxLen)),
                              value, maxLen)
      ELSE addTextChunks(bs, trimmed, maxLen)

processContentLine(bs, line, maxLen) ==
  LET trimmed == trim(line)
      digits  == runLength(trimmed, Digits, TRUE)
  IN  IF trimmed = <<>> THEN bs
      ELSE IF Head(trimmed) \in BulletMarks
      THEN addBulletChunks(bs, trim(trimStart(Tail(trimmed))), maxLen)
      ELSE IF digits > 0 /\ digits < Len(trimmed) /\ trimmed[digits + 1] = "."
      THEN addNumberedChunks(
             bs, trim(trimStart(SubSeq(trimmed, digits + 2, Len(trimmed)))), maxLen)
      ELSE IF indexOfColon(trimmed) >= 0 /\ indexOfColon(trimmed) < COLON_WINDOW
      THEN keyValueLine(bs, trimmed, maxLen)
      ELSE addTextChunks(bs, trimmed, maxLen)

InitLine ==
  /\ RestIdleLine
  /\ lnLine \in LinesUpTo(MaxLineLen)
  /\ lnMax \in MinLimit..MaxM
  /\ lnBlocks = <<>>
  /\ lnPc = "call"

ProcessLine ==
  /\ lnPc = "call"
  /\ lnBlocks' = processContentLine(lnBlocks, lnLine, lnMax)
  /\ lnPc' = "done"
  /\ UNCHANGED <<lnLine, lnMax>>
  /\ UNCHANGED exceptLine

NextLine == ProcessLine

SpecLine == InitLine /\ [][NextLine]_vars

(***************************************************************************)
(* Two runs of the v1.1 handler in one process.  A run is suspended at     *)
(* `await fetchBlocksDeep` and at `await createCleanPage`; between the two *)
(* it extracts, classifies and compiles without interruption.              *)
(***************************************************************************)
RunInputLines ==
  { <<"w">>, <<"---">>, <<"company snapshot">>, <<"data gravity">> }

RECURSIVE RunLinesUpTo(_)
RunLinesUpTo(n) ==
  IF n = 0 THEN {<<>>}
  ELSE LET S == RunLinesUpTo(n - 1)
       IN  S \cup {Append(ls, l) : ls \in {t \in S : Len(t) = n - 1}, l \in RunInputLines}

\* variant of newLoopState in which a call goes on from what the previous
\* call left behind (buckets and current kept at module level)
keptLoopState(prev) == prev

\* const buckets = new Map(); let current = null;
newLoopState(prev) == [buckets |-> <<>>, current |-> Null]

\* the for loop of identifySection from the loop state st
RECURSIVE classifyAll(_, _)
classifyAll(st, ls) ==
  IF ls = <<>> THEN st ELSE classifyAll(classifyLine(st, Head(ls)), Tail(ls))

InitRuns ==
  /\ RestIdleRuns
  /\ rnLines \in [Runs -> RunLinesUpTo(MaxRunLines)]
  /\ rnBuckets = [r \in Runs |-> <<>>]
  /\ rnMd = [r \in Runs |-> <<>>]
  /\ rnLast = [buckets |-> <<>>, current |-> Null]
  /\ rnPc = [r \in Runs |-> "idle"]

\* the handler is invoked and waits for fetchBlocksDeep
RunInvoked(r) ==
  /\ rnPc[r] = "idle"
  /\ rnPc' = [rnPc EXCEPT ![r] = "fetch"]
  /\ UNCHANGED <<rnLines, rnBuckets, rnMd, rnLast>>
  /\ UNCHANGED exceptRuns

\* fetchBlocksDeep has returned: lines, identifySection, compileMarkdown,
\* then the run waits for createCleanPage
RunClassifies(r) ==
  /\ rnPc[r] = "fetch"
  /\ LET st == classifyAll(newLoopState(rnLast), rnLines[r])
     IN  /\ rnBuckets' = [rnBuckets EXCEPT ![r] = st.buckets]
         /\ rnMd' = [rnMd EXCEPT ![r] = compileMarkdown(st.buckets)]
         /\ rnLast' = st
  /\ rnPc' = [rnPc EXCEPT ![r] = "create"]
  /\ UNCHANGED rnLines
  /\ UNCHANGED exceptRuns

\* createCleanPage has returned: the handler answers
RunAnswers(r) ==
  /\ rnPc[r] = "create"
  /\ rnPc' = [rnPc EXCEPT ![r] = "done"]
  /\ UNCHANGED <<rnLines, rnBuckets, rnMd, rnLast>>
  /\ UNCHANGED exceptRuns

NextRuns ==
  \E r \in Runs : RunInvoked(r) \/ RunClassifies(r) \/ RunAnswers(r)

SpecRuns == InitRuns /\ [][NextRuns]_vars

(***************************************************************************)
(* The header-scanning loop of parseClayContent on one majorBlock.  The    *)
(* block is a sequence of tokens: a header '=== title ===', a short piece  *)
(* of content, a piece of content of more than 50 characters.  Offsets     *)
(* count tokens: token k lies between the offsets k - 1 and k.             *)
(***************************************************************************)
HeaderToken == "=== title ==="

ShortContent == "short content"

LongContent == "content of more than 50 characters"

BlockTokens == {HeaderToken, ShortContent, LongContent}

CONTENT_MIN == 50            \* beforeContent.length > 50, remaining.length > 50

NoMatch == -1                \* exec returned null

RECURSIVE BlocksUpTo(_)
BlocksUpTo(n) ==
  IF n = 0 THEN {<<>>}
  ELSE LET S == BlocksUpTo(n - 1)
       IN  S \cup {Append(b, t) : b \in {x \in S : Len(x) = n - 1}, t \in BlockTokens}

\* the length in characters of a token
tokenLength(t) ==
  IF t = LongContent THEN CONTENT_MIN + 10 ELSE 13

RECURSIVE textLength(_)
textLength(ts) == IF ts = <<>> THEN 0 ELSE tokenLength(Head(ts)) + textLength(Tail(ts))

\* majorBlock.substring(a, b): the arguments are swapped when a > b
substring(b, from, to) ==
  IF from <= to THEN SubSeq(b, from + 1, to) ELSE SubSeq(b, to + 1, from)

\* sectionRegex.exec(majorBlock) with sectionRegex.lastIndex = from: the
\* first header at or after from; a failed search sets lastIndex to 0
execFrom(b, from) ==
  LET S == {i \in from..(Len(b) - 1) : b[i + 1] = HeaderToken}
  IN  IF S = {} THEN [index |-> NoMatch, lastIndex |-> 0]
      ELSE LET i == CHOOSE i \in S : \A j \in S : i <= j
           IN  [index |-> i, lastIndex |-> i + 1]

\* if (content && content.length > 50) processContent(data, content)
processContent(sections, content) ==
  IF content # <<>> /\ textLength(content) > CONTENT_MIN
  THEN Append(sections, [header |-> NoMatch, content |-> content])
  ELSE sections

\* if (sectionTitle && sectionContent) addSection(data, sectionTitle, sectionContent)
addSection(sections, at, content) ==
  IF content # <<>> THEN Append(sections, [header |-> at, content |-> content])
  ELSE sections

InitParse ==
  /\ RestIdleParse
  /\ psBlock \in BlocksUpTo(MaxBlockLen)
  /\ psRegexIndex = 0
  /\ psLastIndex = 0
  /\ psSections = <<>>
  /\ psIter = 0
  /\ psPc = "loop"

\* one turn of the while loop: the condition found a header
ParseHeader ==
  /\ psPc = "loop"
  /\ psIter < MaxIter
  /\ LET match == execFrom(psBlock, psRegexIndex)
     IN  /\ match.index # NoMatch
         /\ LET before         == substring(psBlock, psLastIndex, match.index)
                startOfContent == match.lastIndex
                nextMatch      == execFrom(psBlock, startOfContent)
                sectionContent ==
                  IF nextMatch.index # NoMatch
                  THEN substring(psBlock, startOfContent, nextMatch.index)
                  ELSE substring(psBlock, startOfContent, Len(psBlock))
            IN  /\ psSections' = addSection(processContent(psSections, before),
                                            match.index, sectionContent)
                /\ psRegexIndex' = IF nextMatch.index # NoMatch THEN nextMatch.index
                                   ELSE nextMatch.lastIndex
                /\ psLastIndex' = startOfContent
  /\ psIter' = psIter + 1
  /\ UNCHANGED <<psBlock, psPc>>
  /\ UNCHANGED exceptParse

\* the condition found no header: the loop is left, the rest is processed
ParseRest ==
  /\ psPc = "loop"
  /\ execFrom(psBlock, psRegexIndex).index = NoMatch
  /\ psSections' = processContent(psSections, substring(psBlock, psLastIndex, Len(psBlock)))
  /\ psRegexIndex' = execFrom(psBlock, psRegexIndex).lastIndex
  /\ psPc' = "done"
  /\ UNCHANGED <<psBlock, psLastIndex, psIter>>
  /\ UNCHANGED exceptParse

NextParse == ParseHeader \/ ParseRest

SpecParse == InitParse /\ [][NextParse]_vars

(***************************************************************************)
(* Properties of splitTextIntoChunks (checked under SpecChunk).            *)
(***************************************************************************)
WordBreakers == {" ", ",", ".", "!", "?"}   \* whitespace and delimiters

RECURSIVE Flatten(_)
Flatten(ss) == IF ss = <<>> THEN <<>> ELSE Head(ss) \o Flatten(Tail(ss))

IsNotSpace(c) == c # " "
WithoutSpaces(s) == SelectSeq(s, IsNotSpace)

\* the words of s: its maximal runs of characters outside WordBreakers
RECURSIVE Words(_)
Words(s) ==
  LET skip == runLength(s, WordBreakers, TRUE)
      rest == SubSeq(s, skip + 1, Len(s))
      n    == runLength(rest, WordBreakers, FALSE)
  IN  IF n = 0 THEN <<>>
      ELSE <<SubSeq(rest, 1, n)>> \o Words(SubSeq(rest, n + 1, Len(rest)))

RECURSIVE WordsOfAll(_)
WordsOfAll(cs) == IF cs = <<>> THEN <<>> ELSE Words(Head(cs)) \o WordsOfAll(Tail(cs))

\* every word of R is one word of W or several consecutive words of W run
\* together, in the order of W
RECURSIVE MadeOfWholeWords(_, _)
MadeOfWholeWords(R, W) ==
  \/ R = <<>>
  \/ \E q \in 1..Len(W) :
       /\ Flatten(SubSeq(W, 1, q)) = Head(R)
       /\ MadeOfWholeWords(Tail(R), SubSeq(W, q + 1, Len(W)))

\* C1: every chunk returned by splitTextIntoChunks(text, M), M >= 1, has
\* length at most M.
C1_ChunkWithinMax ==
  cpc = "done" => \A i \in 1..Len(chunks) : Len(chunks[i]) <= maxLength

\* C2: the chunks concatenated in order reproduce the text up to whitespace:
\* apart from whitespace, no character of the text is dropped and none is
\* inserted (whitespace is disregarded everywhere, the most lenient reading
\* of "whitespace trimmed at the split points").
C2_ConcatReproducesText ==
  cpc = "done" => WithoutSpaces(Flatten(chunks)) = WithoutSpaces(text)

\* C3: no chunk boundary falls inside a word of the text: the words of the
\* chunks, read in order, are whole words of the text (or consecutive whole
\* words run together where a delimiter between them was lost), so no chunk
\* begins or ends with a proper piece of a word.
C3_NoWordSplit ==
  cpc = "done" => MadeOfWholeWords(WordsOfAll(chunks), Words(text))

\* C3 witness: a text of one sentence without commas went through the word
\* fallback and came back as several chunks.
C3_Witness ==
  /\ cpc = "done"
  /\ Len(chunks) >= 2
  /\ \A i \in 1..Len(text) : text[i] \notin {".", ","}
  /\ Len(Words(text)) >= 2

\* C4: the returned sequence is never empty, and the empty text yields
\* exactly one chunk, the empty string.
C4_NeverEmpty ==
  cpc = "done" => /\ Len(chunks) >= 1
                  /\ (text = <<>> => chunks = << <<>> >>)

\* C4 witness: a text longer than maxLength that leaves nothing to push
\* (whitespace only) still returns the single empty chunk.
C4_Witness ==
  /\ cpc = "done"
  /\ Len(text) > maxLength
  /\ \A i \in 1..Len(text) : text[i] = " "
  /\ chunks = << <<>> >>

(***************************************************************************)
(* Properties of identifySection and compileMarkdown (under SpecSection).  *)
(* "The line" of a loop iteration is the line as the loop sees it, after   *)
(* stripCruft (source line 116); an empty one is skipped (line 117).       *)
(***************************************************************************)
Range(seq) == {seq[i] : i \in 1..Len(seq)}

\* the rules whose pattern matches the line
MatchingRules(line) == {r \in 1..Len(RX) : RX[r].pat \cap Range(line) # {}}

IsHeaderLine(line) == MatchingRules(line) # {}

LeastOf(S) == CHOOSE x \in S : \A y \in S : x <= y

\* a line that stripCruft leaves alone and that is not empty
IsNormalized(line) == line # <<>> /\ stripCruft(line) = line

AllNormalized == \A i \in 1..Len(allLines) : IsNormalized(allLines[i])

CountIn(seq, v) == Cardinality({i \in 1..Len(seq) : seq[i] = v})

RECURSIVE CountInBuckets(_, _)
CountInBuckets(K, v) ==
  IF K = {} THEN 0
  ELSE LET k == CHOOSE x \in K : TRUE
       IN  CountIn(buckets[k], v) + CountInBuckets(K \ {k}, v)

\* number of times the line v sits in some bucket
BucketCount(v) == CountInBuckets(DOMAIN buckets, v)

FallbackKey == <<"Company Overview", "2. Business Summary">>

\* the lines as the loop sees them: stripped, the empty ones skipped
RECURSIVE SeenLines(_)
SeenLines(ls) ==
  IF ls = <<>> THEN <<>>
  ELSE (IF stripCruft(Head(ls)) = <<>> THEN <<>> ELSE <<stripCruft(Head(ls))>>)
         \o SeenLines(Tail(ls))

\* the seen lines that come before the first header line
RECURSIVE PreambleOf(_)
PreambleOf(ls) ==
  IF ls = <<>> \/ IsHeaderLine(Head(ls)) THEN <<>>
  ELSE <<Head(ls)>> \o PreambleOf(Tail(ls))

IsPrefixOf(p, q) == Len(p) <= Len(q) /\ SubSeq(q, 1, Len(p)) = p

\* C5 (as claimed): for a non-empty sequence of normalized lines, every line
\* is assigned to exactly one bucket, none is dropped: each line sits in the
\* buckets as many times as it occurs in the input.
C5_EveryLineBucketed ==
  (allLines # <<>> /\ AllNormalized) =>
     \A i \in 1..Len(allLines) :
        BucketCount(allLines[i]) = CountIn(allLines, allLines[i])

\* C5 (amended): for a non-empty sequence of normalized lines, every line
\* that matches no rule is assigned to exactly one bucket (it sits in the
\* buckets as many times as it occurs in the input), a line that matches a
\* rule is assigned to none, and the buckets hold nothing but input lines.
C5_EveryBodyLineBucketed ==
  (allLines # <<>> /\ AllNormalized) =>
     /\ \A i \in 1..Len(allLines) :
          BucketCount(allLines[i]) =
            IF IsHeaderLine(allLines[i]) THEN 0 ELSE CountIn(allLines, allLines[i])
     /\ \A k \in DOMAIN buckets : Range(buckets[k]) \subseteq Range(allLines)

\* C5 witness: normalized input with a header line and body lines, the body
\* lines bucketed.
C5_Witness ==
  /\ Len(allLines) >= 3
  /\ AllNormalized
  /\ \E i \in 1..Len(allLines) : IsHeaderLine(allLines[i])
  /\ \E i \in 1..Len(allLines) : BucketCount(allLines[i]) = 2

GreatestOf(S) == CHOOSE x \in S : \A y \in S : x >= y

\* C6: a line that matches a rule sets the cursor to the key of a rule it
\* matches and is itself added to no bucket; a line that matches no rule
\* leaves a set cursor alone (the cursor is the key set by the most recent
\* header line, however many other lines followed it); hence while every
\* line seen matches some rule, all buckets are empty.
C6_HeaderConsumed ==
  LET seen    == SeenLines(allLines)
      headers == {i \in 1..Len(seen) : IsHeaderLine(seen[i])}
  IN  /\ \A k \in DOMAIN buckets : \A j \in 1..Len(buckets[k]) :
            ~IsHeaderLine(buckets[k][j])
      /\ headers # {} =>
            current \in {RX[r].key : r \in MatchingRules(seen[GreatestOf(headers)])}
      /\ headers = 1..Len(seen) => \A k \in DOMAIN buckets : buckets[k] = <<>>

\* C6 witness: a header line, then two lines that match no rule: the cursor
\* is still the key of the header and its bucket holds the two lines only.
C6_Witness ==
  LET seen == SeenLines(allLines)
  IN  /\ Len(seen) = 3
      /\ IsHeaderLine(seen[1])
      /\ ~IsHeaderLine(seen[2])
      /\ ~IsHeaderLine(seen[3])
      /\ current \in {RX[r].key : r \in MatchingRules(seen[1])}
      /\ DOMAIN buckets = {current}
      /\ buckets[current] = <<seen[2], seen[3]>>

\* C7: the non-header lines seen before the first header line are appended,
\* in order, to the bucket 'Company Overview:2. Business Summary', and until
\* a header line is seen that key is the current section.
C7_PreambleToFallback ==
  LET seen     == SeenLines(allLines)
      preamble == PreambleOf(seen)
  IN  /\ IsPrefixOf(preamble, bucketGet(buckets, FallbackKey))
      /\ (preamble # <<>> /\ preamble = seen) => current = FallbackKey

\* C7 witness: two preamble lines, then a header of another section and a
\* line of that section.
C7_Witness ==
  LET seen     == SeenLines(allLines)
      preamble == PreambleOf(seen)
  IN  /\ Len(preamble) = 2
      /\ Len(seen) = 4
      /\ current \notin {Null, FallbackKey}
      /\ bucketGet(buckets, FallbackKey) = preamble
      /\ current \in DOMAIN buckets

\* C8: when the line just classified matches two or more rules, the cursor
\* is the key of the one that comes first in the table RX, wherever in the
\* line the patterns match.
C8_FirstRuleWins ==
  (spc = "loop" /\ allLines # <<>>) =>
     LET line == stripCruft(allLines[Len(allLines)])
     IN  Cardinality(MatchingRules(line)) >= 2 =>
           current = RX[LeastOf(MatchingRules(line))].key

\* C8 witness: the line just classified matches rule 13 with its first
\* token and rule 1 with its second, and the cursor is the key of rule 1.
C8_Witness ==
  /\ spc = "loop"
  /\ allLines # <<>>
  /\ LET line == stripCruft(allLines[Len(allLines)])
     IN  /\ Len(line) = 2
         /\ MatchingRules(<<line[1]>>) = {13}
         /\ MatchingRules(<<line[2]>>) = {1}
  /\ current = <<"Company Overview", "1. Company Snapshot">>

IsSectionHeader(l) ==
  Len(l) = 2 /\ l[1] = "##" /\ l[2] \in Range(TOC) \cup Range(CONTROL_TOC)

HasBodyCompany(t) == bucketGet(buckets, <<"Company Overview", t>>) # <<>>
HasBodyControl(t) == bucketGet(buckets, <<"Part 2: Control Points Analysis", t>>) # <<>>
HeaderOfTitle(t)  == <<"##", t>>

Titles(seq) == [i \in 1..Len(seq) |-> HeaderOfTitle(seq[i])]

\* C9: the section headers of the document are those of TOC, then those of
\* CONTROL_TOC, in title order, for exactly the sections whose bucket is
\* non-empty; a section without content emits nothing: every other line of
\* the document is a scope heading, a blank line, a separator or a line of a
\* bucket.
C9_CanonicalOrder ==
  spc = "compiled" =>
     /\ SelectSeq(md, IsSectionHeader)
          = Titles(SelectSeq(TOC, HasBodyCompany)) \o Titles(SelectSeq(CONTROL_TOC, HasBodyControl))
     /\ \A i \in 1..Len(md) :
          \/ IsSectionHeader(md[i])
          \/ md[i] \in { <<"#", "Company Overview">>,
                         <<"#", "Part 2: Control Points Analysis">>, <<>>, <<"---">> }
          \/ \E k \in DOMAIN buckets : md[i] \in Range(buckets[k])

\* C9 witness: a control section was populated before a primary section,
\* and the document carries both headers.
C9_Witness ==
  /\ spc = "compiled"
  /\ Len(allLines) = 4
  /\ MatchingRules(stripCruft(allLines[1])) = {13}
  /\ MatchingRules(stripCruft(allLines[3])) = {1}
  /\ DOMAIN buckets = { <<"Part 2: Control Points Analysis", "1. Data Gravity Analysis">>,
                        <<"Company Overview", "1. Company Snapshot">> }
  /\ Len(SelectSeq(md, IsSectionHeader)) = 2

NoSeparatorInBuckets ==
  \A k \in DOMAIN buckets : Separator \notin Range(buckets[k])

\* C11: a '---' separator of the document stands only between two populated
\* sections: it comes after the content of a populated section and a header
\* of another populated section follows it later in the document (stated for
\* documents whose bucket lines are not themselves '---').
C11_SeparatorsBetweenSections ==
  (spc = "compiled" /\ NoSeparatorInBuckets) =>
     \A i \in 1..Len(md) :
        md[i] = Separator =>
           /\ i > 1
           /\ \E j \in (i + 1)..Len(md) : IsSectionHeader(md[j])

(***************************************************************************)
(* Properties of stripCruft (checked under SpecStrip).                     *)
(***************************************************************************)
\* C12: stripCruft is idempotent: applying it to its own result changes
\* nothing, for every line, lines with several 'Section <n>:' prefixes, step
\* tokens or word-count annotations included.
C12_StripIdempotent ==
  tpc = "twice" => twice = once

(***************************************************************************)
(* Properties of the batched writer (checked under SpecWrite).             *)
(***************************************************************************)
ChildrenOf(reqs) == Flatten([k \in 1..Len(reqs) |-> reqs[k].children])

CeilDiv(n, d) == (n + d - 1) \div d

\* C13: a completed write of N blocks has issued exactly ceil(N / 100) write
\* requests (the create call, then append calls), none carrying more than
\* 100 blocks, and the children of the requests concatenated in issue order
\* are the block list; the destination then holds exactly that list.
C13_BatchesCoverBlocks ==
  wpc = "done" =>
     /\ Len(requests) = CeilDiv(Len(blocks), MAX_BLOCKS_PER_REQUEST)
     /\ \A k \in 1..Len(requests) : Len(requests[k].children) <= MAX_BLOCKS_PER_REQUEST
     /\ ChildrenOf(requests) = blocks
     /\ destination = blocks

\* C13 witness: a write completed in three requests, the last one partial.
C13_Witness ==
  /\ wpc = "done"
  /\ Len(requests) = 3
  /\ Len(requests[3].children) \in 1..(MAX_BLOCKS_PER_REQUEST - 1)

\* C14: the create call is issued first and carries the first batch; every
\* later request is an append; a request is issued only when every earlier
\* request has been answered, so at most one write is in flight; the batches
\* are issued in ascending order of position in the block list.
C14_OneWriteAtATime ==
  /\ Cardinality(inFlight) <= 1
  /\ inFlight \subseteq {Len(requests)}
  /\ requests # <<>> =>
        /\ requests[1] = [op |-> "create", children |-> firstBatch(blocks)]
        /\ \A k \in 2..Len(requests) : requests[k].op = "append"
  /\ ChildrenOf(requests) = SubSeq(blocks, 1, Len(ChildrenOf(requests)))
  /\ destination = SubSeq(blocks, 1, Len(destination))

\* C14 witness: the second append is in flight, the create call and the
\* first append acknowledged.
C14_Witness ==
  /\ wpc = "append"
  /\ Len(requests) = 3
  /\ inFlight = {3}
  /\ Len(destination) = 2 * MAX_BLOCKS_PER_REQUEST

(***************************************************************************)
(* Properties of the read path (checked under SpecHandler).                *)
(***************************************************************************)
NodeCount == Len(source.parent)

\* fetchBlocksDeep(pageId) has returned
FetchDone == trace # <<>> /\ stack = <<>>

PosInAcc(x) == CHOOSE i \in 1..Len(acc) : acc[i] = x

\* d lies in the subtree below a
RECURSIVE IsBelow(_, _)
IsBelow(d, a) ==
  /\ d # RootId
  /\ \/ source.parent[d] = a
     \/ IsBelow(source.parent[d], a)

\* C15: fetchBlocksDeep returns the blocks of the source subtree in
\* pre-order: every block exactly once, a block before the blocks below it,
\* the whole subtree of a child before the next sibling of that child, and
\* siblings in the order the collaborator serves them.
C15_PreOrder ==
  FetchDone =>
     /\ Len(acc) = NodeCount
     /\ \A x \in 1..NodeCount : Cardinality({i \in 1..Len(acc) : acc[i] = x}) = 1
     /\ \A x \in 1..NodeCount :
          source.parent[x] # RootId => PosInAcc(source.parent[x]) < PosInAcc(x)
     /\ \A a, b \in 1..NodeCount :
          (source.parent[a] = source.parent[b] /\ a < b) =>
             /\ PosInAcc(a) < PosInAcc(b)
             /\ \A d \in 1..NodeCount : IsBelow(d, a) => PosInAcc(d) < PosInAcc(b)

\* C15 witness: the first block has a child and a later sibling; the child
\* is returned between them.
C15_Witness ==
  /\ FetchDone
  /\ source.parent = <<0, 0, 1>>
  /\ acc = <<1, 3, 2>>

ListCallsOf(id) ==
  LET Sel(c) == c.op = "list" /\ c.block_id = id
  IN  SelectSeq(calls, Sel)

ResultsOf(cs) == Flatten([k \in 1..Len(cs) |-> cs[k].results])

\* C16: the list calls made for one block form a chain: the first carries
\* no cursor, each later one carries the cursor returned by the answer
\* before it, which reported has_more; the loop goes on while the last answer
\* reports has_more and stops when it does not; the list returned is the
\* results of all answers in request order, which is the complete ordered
\* child list of the block.
C16_PaginationChain ==
  /\ \A id \in 0..NodeCount :
       LET cs == ListCallsOf(id)
       IN  /\ cs # <<>> => cs[1].start_cursor = Null
           /\ \A k \in 1..(Len(cs) - 1) :
                /\ cs[k].outcome = "ok"
                /\ cs[k].has_more
                /\ cs[k + 1].start_cursor = cs[k].next_cursor
  /\ \A f \in 1..Len(stack) :
       LET fr == stack[f]
           cs == ListCallsOf(fr.id)
       IN  IF fr.phase = "loop"
           THEN /\ cs # <<>>
                /\ ~cs[Len(cs)].has_more
                /\ fr.kids = ResultsOf(cs)
                /\ fr.kids = Children(source, fr.id)
           ELSE \A k \in 1..Len(cs) : cs[k].outcome = "ok" => cs[k].has_more

\* C16 witness: the children of a block came in two pages or more.
C16_Witness ==
  \E f \in 1..Len(stack) :
     /\ stack[f].phase = "loop"
     /\ Len(ListCallsOf(stack[f].id)) >= 2
     /\ Len(stack[f].kids) >= 2

(***************************************************************************)
(* Properties of the v1.1 handler (checked under SpecHandler).             *)
(***************************************************************************)
IsClientError(r) == r.status \in 400..499

\* C18: when extraction yields no usable line, the run ends with a
\* client-error response and no page is created.
C18_EmptyExtractionRejected ==
  (hpc = "done" /\ "EXTRACT" \in Range(trace) /\ lines = <<>>) =>
     /\ IsClientError(res)
     /\ pages = <<>>

\* C19: a collaborator call is made only for a POST request that carries a
\* source page id; a request of another method, or without a source id, is
\* answered with a client error before any call.
C19_CallsOnlyForPostWithId ==
  /\ calls # <<>> => (req.method = "POST" /\ req.pageId # "")
  /\ (hpc = "done" /\ (req.method # "POST" \/ req.pageId = "")) =>
        (IsClientError(res) /\ calls = <<>>)

(***************************************************************************)
(* Properties of the polishing step (checked under SpecPolish).            *)
(***************************************************************************)
\* the run asked for polishing of a raw text
PolishAsked ==
  /\ preq.method = "POST" /\ parentId(preq, penv)
  /\ preq.sections = 0 /\ preq.raw # <<>> /\ preq.useOpenAI

PolishCallFailed == \E k \in 1..Len(pcalls) : pcalls[k] = PCall("polish", "failed")

NoWriteFailed ==
  \A k \in 1..Len(pcalls) : pcalls[k].op = "polish" \/ pcalls[k].outcome = "ok"

\* C17: when the polishing collaborator is absent or its call fails, the
\* run goes on with the raw text and creates the page (unless a write call
\* fails): it ends with status 200, the page holding the raw text.
C17_PolishFailureTolerated ==
  (ppc = "done" /\ PolishAsked /\ NoWriteFailed
     /\ (~penv.OPENAI_API_KEY \/ PolishCallFailed)) =>
        /\ pres = 200
        /\ ptext = preq.raw
        /\ \E k \in 1..Len(pdest) : pdest[k] = <<"paragraph", preq.raw>>

(***************************************************************************)
(* Properties of chunkText (checked under SpecChunkText).                  *)
(***************************************************************************)
IsWordChar(c) == c \notin {Space, Newline}

\* C20: chunkText never ends a piece in the middle of a word: where one
\* piece ends and the next begins, the two characters on either side of
\* the cut are not both characters of a word.
C20_NoMidWordCut ==
  ctpc = "done" =>
     \A k \in 1..(Len(cpieces) - 1) :
        LET left  == cpieces[k]
            right == cpieces[k + 1]
        IN  (left # <<>> /\ right # <<>>) =>
               ~(IsWordChar(left[Len(left)]) /\ IsWordChar(right[1]))
(***************************************************************************)
(* Properties of createCleanPage (checked under SpecCreatePage).           *)
(***************************************************************************)
\* C21: every write request issued by createCleanPage carries at most 100
\* blocks, whatever the length of the markdown and of the JSON.
C21_RequestWithin100 ==
  \A k \in 1..Len(cpCalls) : Len(cpCalls[k].children) <= MAX_BLOCKS_PER_REQUEST
(***************************************************************************)
(* Properties of processContentLine (checked under SpecLine).              *)
(***************************************************************************)
\* total length of the rich-text items of a block
RECURSIVE payloadFrom(_, _)
payloadFrom(rt, k) ==
  IF k > Len(rt) THEN 0 ELSE Len(rt[k].content) + payloadFrom(rt, k + 1)

payload(b) == payloadFrom(b.rich_text, 1)

\* the payload limit of a block stands above the chunk limit (2000 above
\* 1900); with a chunk limit of a few characters it is the next length
payloadLimit(maxLen) ==
  IF maxLen = MAX_TEXT_LENGTH THEN 2000 ELSE maxLen + 1

\* C22: every block pushed by processContentLine and by addTextChunks,
\* addBulletChunks and addNumberedChunks carries a rich-text payload within
\* the payload limit, for every input line.
C22_PayloadWithinLimit ==
  lnPc = "done" =>
    \A k \in 1..Len(lnBlocks) : payload(lnBlocks[k]) <= payloadLimit(lnMax)
(***************************************************************************)
(* Stages and failures of a run of the v1.1 handler (under SpecHandler).   *)
(***************************************************************************)
\* the stages of a run of the v1.1 cleaner, which has no append call
Stages == <<"FETCH", "EXTRACT", "CLASSIFY", "REASSEMBLE", "SERIALIZE", "CREATE", "DONE">>

IsPrefix(s, t) == Len(s) <= Len(t) /\ SubSeq(t, 1, Len(s)) = s

\* C23: a run enters the stages FETCH, EXTRACT, CLASSIFY, REASSEMBLE,
\* SERIALIZE, CREATE, DONE in that order; a failed collaborator call is the
\* last call of its run, and the run ends with an error response; a write
\* call is issued only after every read call has returned successfully, and
\* no read call follows it.
C23_StagesInOrderAbortOnFailure ==
  /\ IsPrefix(trace, Stages)
  /\ \A k \in 1..Len(calls) :
       /\ calls[k].outcome = "failed" =>
            k = Len(calls) /\ hpc = "done" /\ res.status >= 500
       /\ calls[k].outcome = "pending" => k = Len(calls)
       /\ calls[k].op = "create" =>
            /\ k = Len(calls)
            /\ \A j \in 1..(k - 1) : calls[j].op = "list" /\ calls[j].outcome = "ok"
            /\ FetchDone
  /\ hpc = "done" /\ res.status >= 400 => ~("DONE" \in Range(trace))

\* a run in which a read call failed after another had succeeded
C23_Witness ==
  /\ hpc = "done"
  /\ Len(calls) >= 2
  /\ calls[Len(calls)].op = "list"
  /\ calls[Len(calls)].outcome = "failed"
  /\ calls[1].outcome = "ok"
(***************************************************************************)
(* The destination during and after a run of createCleanNotionPage         *)
(* (checked under SpecWrite).                                              *)
(***************************************************************************)
\* C24: at every point of a run of createCleanNotionPage and
\* addRemainingBlocks the children of the destination are a prefix of blocks
\* made of whole batches in order; after a failed create or append call the
\* batches written before it are still there, something is missing, and the
\* run has thrown.
C24_WholeBatchPrefix ==
  /\ IsPrefix(destination, blocks)
  /\ \/ Len(destination) % MAX_BLOCKS_PER_REQUEST = 0
     \/ Len(destination) = Len(blocks)
  /\ wpc = "done" => destination = blocks
  /\ wpc = "failed" =>
       /\ Len(requests) >= 1
       /\ Len(destination) = MAX_BLOCKS_PER_REQUEST * (Len(requests) - 1)
       /\ Len(destination) < Len(blocks)

\* a run that failed in an append call, after the page and a batch were written
C24_Witness ==
  /\ wpc = "failed"
  /\ Len(requests) >= 3
  /\ Len(destination) = 2 * MAX_BLOCKS_PER_REQUEST
(***************************************************************************)
(* The missing destination parent in the v1.1 handler (under SpecHandler). *)
(***************************************************************************)
\* C25: when the destination parent id is not configured, a run of the v1.1
\* handler issues no collaborator call, neither a read nor a write, and ends
\* with an error.
C25_NoCallWithoutParent ==
  ~env.CLEAN_PARENT =>
    /\ calls = <<>>
    /\ hpc = "done" => res.status >= 400
(***************************************************************************)
(* Runs in one process (checked under SpecRuns).                           *)
(***************************************************************************)
Classified(r) == rnPc[r] \in {"create", "done"}

HeadersOf(b) == {i \in 0..(Len(b) - 1) : b[i + 1] = HeaderToken}

SectionsOfHeader(i) == {k \in 1..Len(psSections) : psSections[k].header = i}

\* C27: the while loop of parseClayContent takes no more turns than the
\* block has headers, and every header of the block contributes at most one
\* section to data.sections.
C27_LoopEndsOneSectionPerHeader ==
  /\ psIter <= Cardinality(HeadersOf(psBlock))
  /\ \A i \in HeadersOf(psBlock) : Cardinality(SectionsOfHeader(i)) <= 1
(***************************************************************************)
(* chunkText as a partition of the text (checked under SpecChunkText).     *)
(***************************************************************************)
\* C28: chunkText(text, size) returns pieces that are non-empty and at most
\* size long and that, concatenated in order, are the text itself; a piece
\* cut at a newline is followed by a piece that starts with that newline.
C28_ChunkTextPartitions ==
  ctpc = "done" =>
    /\ \A k \in 1..Len(cpieces) : cpieces[k] # <<>> /\ Len(cpieces[k]) <= csize
    /\ Flatten(cpieces) = ctext
    /\ \A k \in 1..(Len(cpieces) - 1) :
         Len(cpieces[k]) < csize => Head(cpieces[k + 1]) = Newline

\* a text cut at a newline, with a piece after the one that starts with it
C28_Witness ==
  /\ ctpc = "done"
  /\ Len(cpieces) >= 3
  /\ Len(cpieces[1]) < csize
  /\ Head(cpieces[2]) = Newline
  /\ Len(cpieces[2]) = csize
(***************************************************************************)
(* Bucket lines in the compiled document (checked under SpecSection).      *)
(***************************************************************************)
\* the positions of the document that hold the header of the bucket key k
HeaderPositions(k) == {i \in 1..Len(md) : md[i] = sectionHeader(k[2])}

KnownKeys ==
  {keyCompany(TOC[i]) : i \in 1..Len(TOC)}
    \cup {keyControl(CONTROL_TOC[i]) : i \in 1..Len(CONTROL_TOC)}

\* C29: every bucket key is a key of TOC or CONTROL_TOC; the document holds
\* the header of every bucket exactly once, and the lines that follow it are
\* the lines of the bucket, all of them, in the order of the source.
C29_BodiesAreBuckets ==
  spc = "compiled" =>
    /\ DOMAIN buckets \subseteq KnownKeys
    /\ \A k \in DOMAIN buckets :
         /\ Cardinality(HeaderPositions(k)) = 1
         /\ \A i \in HeaderPositions(k) :
              /\ i + Len(buckets[k]) <= Len(md)
              /\ SubSeq(md, i + 1, i + Len(buckets[k])) = buckets[k]
(***************************************************************************)
(* Dry runs of the v1.1 handler (checked under SpecHandler).               *)
(***************************************************************************)
\* C30: with DRY_RUN set, a run issues no create call and creates no page;
\* a run that read the source without failure has extracted and classified
\* and answers 200 with wrote = false and a null page id.
C30_DryRunWritesNothing ==
  env.DRY_RUN =>
    /\ \A k \in 1..Len(calls) : calls[k].op = "list"
    /\ pages = <<>>
    /\ (hpc = "done" /\ res.status < 400) =>
         /\ res.status = 200
         /\ res.wrote = FALSE
         /\ res.notionPageId = Null
         /\ IsPrefix(<<"FETCH", "EXTRACT", "CLASSIFY", "REASSEMBLE">>, trace)
         /\ lines = extractLines(source, acc)
    /\ (hpc = "done" /\ FetchDone) => res.status = 200

\* a dry run that read a source with content and answered
C30_Witness ==
  /\ env.DRY_RUN
  /\ env.CLEAN_PARENT
  /\ hpc = "done"
  /\ res.status = 200
  /\ calls # <<>>
  /\ lines # <<>>

====
